---- MODULE Spec2Model ----
(***************************************************************************)
(* Weather-dashboard backend: the tiered cache (services/cache_service.py, *)
(* services/redis_service.py), the resilience wrapper of the weather       *)
(* provider client (services/weather_service.py), the alert monitoring     *)
(* loop (services/alert_service.py), the event queues of                   *)
(* services/sse_manager.py, the weather routes (api/weather_routes.py),    *)
(* the stream endpoints (api/sse_routes.py), the OTP service               *)
(* (services/otp_service.py), the alert routes (api/alerts_routes.py) and  *)
(* the functions of utils/transformations.py and utils/nlp_utils.py.       *)
(*                                                                         *)
(* Requests are asyncio tasks of one process: a handler runs atomically    *)
(* from one await that suspends to the next, and tasks interleave at those *)
(* points.  Time is the wall clock in seconds.                             *)
(***************************************************************************)
EXTENDS Integers, Sequences, FiniteSets, TLC

(***************************************************************************)
(* Bounds of the model.                                                    *)
(***************************************************************************)
NumTasks == 2
MaxTime == 90
MaxClock == 60
NumLoops == 2
MaxAlertTime == 900
MaxCooldownTime == 88200
MaxEvents == 4
MaxBroadcasts == 2
MaxGuesses == 4
MaxAlertDocs == 22
MaxRouteTime == 450
MaxDays == 18
MaxWords == 4

Tasks == 1..NumTasks
TickSteps == {30}
Keys == {"weather_1_1_metric"}
Payloads == {"p1", "p2"}
TTLs == {30, 90}

(***************************************************************************)
(* Values.  A cached string is a sequence of tokens; None is Python's None *)
(* as a return value, NoStr a missing string (None from redis.get).        *)
(***************************************************************************)
None == "None"
NoStr == <<>>
EmptyDict == [k \in {} |-> NoStr]

enabled == TRUE

L1_TTL == 60

\* json.dumps(value): the payload between braces.
dumps(v) == <<"{", v, "}">>

WellFormed(s) == Len(s) = 3 /\ s[1] = "{" /\ s[3] = "}"

\* json.loads(s): the payload of a well-formed string; raises otherwise.
loads(s) == IF WellFormed(s) THEN s[2] ELSE "JSONDecodeError"

Put(d, k, x) == [j \in DOMAIN d \cup {k} |-> IF j = k THEN x ELSE d[j]]
Del(d, k) == [j \in DOMAIN d \ {k} |-> d[j]]

VARIABLES
    now,                  \* datetime.utcnow(), seconds
    memory_cache,         \* CacheService._memory_cache: key -> str
    memory_cache_expiry,  \* CacheService._memory_cache_expiry: key -> time
    redis_kind,           \* the client init_redis built: "redis" | "mock"
    redis_store,          \* the shared tier: key -> [val, exp]
    pc,                   \* per task: where its cache call is suspended
    key,                  \* per task: the key of the call in flight
    val,                  \* per task: the payload of its set
    ttl,                  \* per task: ttl_seconds of its set
    reply,                \* per task: what redis.get answered
    touched,              \* per task: what its get did to the fast tier so far
    quiet,                \* per task: what else has stepped since the call began
    after,                \* per task: what its get directly followed
    last,                 \* the step just taken: the call that returned, and what it returned
    lastSet,              \* history: key -> payload of the latest set on it
    served                \* history: key -> payloads that undisturbed gets returned

cacheVars == <<now, memory_cache, memory_cache_expiry, redis_kind, redis_store,
               pc, key, val, ttl, reply, touched, quiet, after, last, lastSet, served>>

VARIABLES
    clock,                \* time.monotonic(), seconds
    state,                \* per operation: CircuitBreaker._state, "closed" | "open"
    failure_count,        \* per operation: CircuitBreaker._failure_count
    opened,               \* per operation: CircuitBreaker._opened
    wpc,                  \* per task: where its provider call is suspended
    wop,                  \* per task: the operation it called
    attempt_number,       \* per task: tenacity's attempt_number of the call in flight
    prev,                 \* per task: the class of failure the previous attempt ended in
    trial,                \* per task: the call was let through a breaker whose window had elapsed
    in_window,            \* per task: the call began within 60 s of a fifth consecutive failure
    streak,               \* history, per operation: failed calls since the last success
    tripped,              \* history, per operation: time of the latest failure that was a fifth or later in a row
    wlast                 \* the provider call that returned with the step just taken

breakerVars == <<clock, state, failure_count, opened, wpc, wop, attempt_number, prev,
                 trial, in_window, streak, tripped, wlast>>

VARIABLES
    utc,                  \* datetime.utcnow() of the alert loop, seconds
    is_running,           \* AlertService.is_running
    tz_aware,             \* the document store hands timestamps back timezone-aware
    lpc,                  \* per start_monitoring call: "none" | "fetch" | "sleep" | "exited"
    snapshot,             \* per loop: the alert documents its cycle loaded
    idx,                  \* per loop: the position of the alert being processed
    wake,                 \* per loop: when its asyncio.sleep ends
    delay,                \* per loop: the seconds of that sleep
    load_failed,          \* per loop: loading the alerts raised in its latest cycle
    processed,            \* per loop: ids passed to _process_alert in its latest cycle
    failed,               \* per loop: an alert of its latest cycle failed
    lastTriggered,        \* alerts collection: id -> lastTriggered (<<>> is None)
    triggerCount,         \* alerts collection: id -> triggerCount
    alert_history,        \* alert_history collection: the TriggerEvents added
    alert_docs,           \* alerts collection: id -> the fields the owner set
    alast                 \* the step of the alert loop just taken

alertVars == <<utc, is_running, tz_aware, lpc, snapshot, idx, wake, delay, load_failed,
               processed, failed, lastTriggered, triggerCount, alert_history, alert_docs,
               alast>>

VARIABLES
    connections,          \* SSEManager.connections: the users registered
    pending_events,       \* SSEManager.pending_events: user -> queued events
    next_seq,             \* history: the number of events queued so far, plus one
    delivered,            \* history: user -> the events get_pending_events returned
    cond_in,              \* the arguments of a _check_condition call
    cond_out              \* what that call returned

sseVars == <<connections, pending_events, next_seq, delivered>>

condVars == <<cond_in, cond_out>>

VARIABLES
    rpc,                  \* per task: where its route handler is suspended
    rh,                   \* per task: the handler, "current" | "poll"
    rfurther,             \* per task: it began after /current had first answered from the provider
    first_at,             \* history: when /current first answered from the provider (<<>>: not yet)
    rlast                 \* the response returned with the step just taken

routeVars == <<rpc, rh, rfurther, first_at, rlast>>

VARIABLES
    fn_in,                \* the arguments of a call of a function without side effects
    fn_out                \* what the call did and returned

fnVars == <<fn_in, fn_out>>

VARIABLES
    stream_connections,   \* sse_manager of api/sse_routes.py: connections
    stream_pending,       \* sse_manager of api/sse_routes.py: pending_events
    yielded               \* history: user -> the events its stream has sent

streamVars == <<stream_connections, stream_pending, yielded>>

VARIABLES
    otp_key,              \* Redis: email -> the value of otp:{email} (<<>>: no key)
    otp_attempts,         \* Redis: email -> the value of otp_attempts:{email}
    vpc,                  \* per task: the Redis command its store_otp or verify_otp awaits
    vemail,               \* per task: the email argument
    votp,                 \* per task: the otp argument
    stored_otp,           \* per task: what redis.get(key) returned to its verify_otp
    accepted,             \* history: email -> verify_otp calls that returned True since the last store
    compared,             \* history: email -> wrong codes compared since the last store
    olast                 \* the call that returned with the step just taken

otpVars == <<otp_key, otp_attempts, vpc, vemail, votp, stored_otp, accepted, compared, olast>>

VARIABLES
    user_alerts,          \* alerts collection, documents of one owner: active flag -> how many
    cpc,                  \* per task: "idle", or "geocode" while its create_alert awaits geocode_city
    clast                 \* the response returned with the step just taken

crudVars == <<user_alerts, cpc, clast>>

vars == <<cacheVars, breakerVars, alertVars, sseVars, condVars, routeVars, fnVars, streamVars, otpVars, crudVars>>

\* What the actions of one component leave alone.
exceptCache == <<breakerVars, alertVars, sseVars, condVars, routeVars, fnVars, streamVars, otpVars, crudVars>>
exceptBreaker == <<cacheVars, alertVars, sseVars, condVars, routeVars, fnVars, streamVars, otpVars, crudVars>>

AKey == CHOOSE k \in Keys : TRUE

\* The record of a step: kind is the call that returned with it ("get", "set",
\* "delete"), "clear" for clear_memory, "other" for every other step.
Ev(kind, t, k, v, r, how, tch, aft, q) ==
    [kind |-> kind, t |-> t, key |-> k, val |-> v, ret |-> r, src |-> how,
     touched |-> tch, after |-> aft, quiet |-> q]

Other == Ev("other", 0, AKey, None, None, "none", "none", "none", "alone")

CacheInit ==
    /\ now = 0
    /\ memory_cache = EmptyDict
    /\ memory_cache_expiry = [k \in {} |-> 0]
    /\ redis_kind \in {"redis", "mock"}
    /\ redis_store = [k \in {} |-> [val |-> NoStr, exp |-> 0]]
    /\ pc = [t \in Tasks |-> "idle"]
    /\ key = [t \in Tasks |-> AKey]
    /\ val = [t \in Tasks |-> None]
    /\ ttl = [t \in Tasks |-> 0]
    /\ reply = [t \in Tasks |-> NoStr]
    /\ touched = [t \in Tasks |-> "none"]
    /\ quiet = [t \in Tasks |-> "alone"]
    /\ after = [t \in Tasks |-> "none"]
    /\ last = Other
    /\ lastSet = [k \in Keys |-> None]
    /\ served = [k \in Keys |-> {}]

(***************************************************************************)
(* The provider client: @circuit(failure_threshold=5, recovery_timeout=60) *)
(* over @retry(stop=stop_after_attempt(3), wait=wait_exponential(...)).    *)
(* One breaker per decorated operation, shared by every task.              *)
(***************************************************************************)
Ops == {"get_current_weather", "get_forecast"}

\* get_historical_weather carries the same two decorators; its body catches
\* every exception.
HistoricalOp == "get_historical_weather"
AllOps == Ops \cup {HistoricalOp}
ClockSteps == {30}

\* How one upstream attempt ends: a result; a network error, timeout or 5xx;
\* a 4xx from raise_for_status; an exception of the transform.
Outcomes == {"ok", "transient", "client_error", "transform_error"}

\* The class of a failed attempt.
Class(out) == IF out = "transient" THEN "transient" ELSE "non_transient"

failure_threshold == 5
recovery_timeout == 60
stop_after_attempt == 3

AnOp == CHOOSE o \in Ops : TRUE

\* The record of a provider call that returned: its operation, its result
\* ("ok", "RetryError", "CircuitBreakerError"), the attempts it made, and
\* how it was let through.
Done(o, res, n, tr, win) ==
    [kind |-> "call", op |-> o, result |-> res, attempts |-> n, trial |-> tr,
     in_window |-> win]

NoCall == [kind |-> "none", op |-> AnOp, result |-> "none", attempts |-> 0,
           trial |-> FALSE, in_window |-> FALSE]

BreakerInit ==
    /\ clock = 0
    /\ state = [o \in AllOps |-> "closed"]
    /\ failure_count = [o \in AllOps |-> 0]
    /\ opened = [o \in AllOps |-> 0]
    /\ wpc = [t \in Tasks |-> "idle"]
    /\ wop = [t \in Tasks |-> AnOp]
    /\ attempt_number = [t \in Tasks |-> 0]
    /\ prev = [t \in Tasks |-> "none"]
    /\ trial = [t \in Tasks |-> FALSE]
    /\ in_window = [t \in Tasks |-> FALSE]
    /\ streak = [o \in AllOps |-> 0]
    /\ tripped = [o \in AllOps |-> -1]
    /\ wlast = NoCall

(***************************************************************************)
(* History bookkeeping shared by the actions.                              *)
(***************************************************************************)
\* What a call in flight has seen step beside it: nothing ("alone"); for a
\* delete, only steps of get calls and of the clock ("reads"); otherwise
\* "writes" (for a delete: a step of set, delete or clear_memory; for a get
\* or a set: any step).
Worse(q, lvl) == IF q = "writes" \/ lvl = "writes" THEN "writes" ELSE "reads"

Disturbed(u, lvl) ==
    IF pc[u] = "idle" THEN "alone"
    ELSE IF pc[u] = "del_l2" THEN Worse(quiet[u], lvl) ELSE "writes"

\* Task t takes a step of level lvl and is left with q; a call that begins
\* or returns starts from "alone".
QuietStep(t, q, lvl) == [u \in Tasks |-> IF u = t THEN q ELSE Disturbed(u, lvl)]

AllDisturbed(lvl) == [u \in Tasks |-> Disturbed(u, lvl)]

\* A set or delete step on key k ends the period the served payloads span.
Forget(k) == [served EXCEPT ![k] = {}]

\* An undisturbed get returned r.
Record(q, k, r) ==
    IF q = "alone" /\ r # None THEN [served EXCEPT ![k] = @ \cup {r}] ELSE served

\* The locals of task t once its call has returned.
Returned(t, lvl) ==
    /\ pc' = [pc EXCEPT ![t] = "idle"]
    /\ key' = [key EXCEPT ![t] = AKey]
    /\ val' = [val EXCEPT ![t] = None]
    /\ ttl' = [ttl EXCEPT ![t] = 0]
    /\ reply' = [reply EXCEPT ![t] = NoStr]
    /\ touched' = [touched EXCEPT ![t] = "none"]
    /\ after' = [after EXCEPT ![t] = "none"]
    /\ quiet' = QuietStep(t, "alone", lvl)

(***************************************************************************)
(* CacheService._get_from_memory                                           *)
(***************************************************************************)
InMemory(k) == k \in DOMAIN memory_cache

Unexpired(k) == k \in DOMAIN memory_cache_expiry /\ now < memory_cache_expiry[k]

MemoryHit(k) == InMemory(k) /\ Unexpired(k)

\* What the get of task t directly follows: its own undisturbed set of the
\* same key, or clear_memory.
Follows(t, k) ==
    IF last.kind = "set" /\ last.t = t /\ last.key = k /\ last.quiet = "alone"
    THEN (IF last.src = "ok" THEN "set_ok" ELSE "set_failed")
    ELSE IF last.kind = "clear" THEN "clear" ELSE "none"

\* A get whose except clause lets the error through.
GetExcept_Reraise == "raised"

\* The except clause of get: the error is logged and None returned.
GetExcept == None

(***************************************************************************)
(* CacheService.get, up to its first suspension: the fast-tier lookup with *)
(* the lazy delete of an expired entry, the return on a hit, or the        *)
(* request to the shared tier.                                             *)
(***************************************************************************)
GetStart(t, k) ==
    /\ pc[t] = "idle"
    /\ enabled
    /\ LET hit == MemoryHit(k) /\ memory_cache[k] # NoStr
           purge == InMemory(k) /\ ~Unexpired(k)
           tch == IF purge THEN "purge" ELSE "none"
           aft == Follows(t, k)
           v == IF aft \in {"set_ok", "set_failed"} THEN last.val ELSE None
       IN  /\ memory_cache' = IF purge THEN Del(memory_cache, k) ELSE memory_cache
           /\ memory_cache_expiry' =
                 IF purge THEN Del(memory_cache_expiry, k) ELSE memory_cache_expiry
           /\ IF hit
              THEN LET s == memory_cache[k]
                       r == IF WellFormed(s) THEN loads(s) ELSE GetExcept
                       how == IF WellFormed(s) THEN "l1" ELSE "l1_decode_error"
                   IN  /\ Returned(t, "reads")
                       /\ last' = Ev("get", t, k, v, r, how, tch, aft, "alone")
                       /\ served' = Record("alone", k, r)
              ELSE /\ pc' = [pc EXCEPT ![t] = "get_l2"]
                   /\ key' = [key EXCEPT ![t] = k]
                   /\ val' = [val EXCEPT ![t] = v]
                   /\ touched' = [touched EXCEPT ![t] = tch]
                   /\ after' = [after EXCEPT ![t] = aft]
                   /\ quiet' = QuietStep(t, "alone", "reads")
                   /\ last' = Other
                   /\ UNCHANGED <<ttl, reply, served>>
    /\ UNCHANGED <<now, redis_kind, redis_store, lastSet>>

\* What the shared tier answers to GET k: MockRedis.get always answers None.
RedisGet(k) ==
    IF redis_kind = "redis" /\ k \in DOMAIN redis_store
    THEN redis_store[k].val ELSE NoStr

(***************************************************************************)
(* await redis.get(key): the shared tier answers, or the lookup fails and  *)
(* the except clause of get returns None.                                  *)
(***************************************************************************)
RedisGetExec(t) ==
    /\ pc[t] = "get_l2"
    /\ \/ /\ reply' = [reply EXCEPT ![t] = RedisGet(key[t])]
          /\ pc' = [pc EXCEPT ![t] = "get_resume"]
          /\ quiet' = QuietStep(t, quiet[t], "reads")
          /\ last' = Other
          /\ UNCHANGED <<key, val, ttl, touched, after>>
       \/ /\ redis_kind = "redis"
          /\ Returned(t, "reads")
          /\ last' = Ev("get", t, key[t], val[t], GetExcept, "lookup_error",
                        touched[t], after[t], quiet[t])
    /\ UNCHANGED <<now, memory_cache, memory_cache_expiry, redis_kind, redis_store,
                   lastSet, served>>

\* A backfill that stores the entry already expired.
BackfillExpiry_Now == now

\* The expiry the backfill of the fast tier gives an entry.
BackfillExpiry == now + L1_TTL

Touch(t, what) == IF touched[t] = "none" THEN what ELSE "purge+backfill"

(***************************************************************************)
(* CacheService.get resumed with the shared tier's answer: backfill of the *)
(* fast tier, then json.loads; a miss returns None.                        *)
(***************************************************************************)
GetResume(t) ==
    /\ pc[t] = "get_resume"
    /\ LET k == key[t]
           data == reply[t]
           r == IF data = NoStr THEN None
                ELSE IF WellFormed(data) THEN loads(data) ELSE GetExcept
           how == IF data = NoStr THEN "miss"
                  ELSE IF WellFormed(data) THEN "l2" ELSE "l2_decode_error"
           tch == IF data # NoStr THEN Touch(t, "backfill") ELSE touched[t]
       IN  /\ memory_cache' = IF data # NoStr THEN Put(memory_cache, k, data) ELSE memory_cache
           /\ memory_cache_expiry' =
                 IF data # NoStr THEN Put(memory_cache_expiry, k, BackfillExpiry)
                 ELSE memory_cache_expiry
           /\ last' = Ev("get", t, k, val[t], r, how, tch, after[t], quiet[t])
           /\ served' = Record(quiet[t], k, r)
    /\ Returned(t, "reads")
    /\ UNCHANGED <<now, redis_kind, redis_store, lastSet>>

\* l1_ttl = min(60, ttl_seconds)
l1_ttl(s) == IF s < L1_TTL THEN s ELSE L1_TTL

\* A set that leaves the fast tier to the backfill and writes only the
\* shared tier.
SetStart_SharedOnly(t, k, v, s) ==
    /\ pc[t] = "idle"
    /\ enabled
    /\ pc' = [pc EXCEPT ![t] = "set_l2"]
    /\ key' = [key EXCEPT ![t] = k]
    /\ val' = [val EXCEPT ![t] = v]
    /\ ttl' = [ttl EXCEPT ![t] = s]
    /\ quiet' = QuietStep(t, "alone", "writes")
    /\ last' = Other
    /\ lastSet' = [lastSet EXCEPT ![k] = v]
    /\ served' = Forget(k)
    /\ UNCHANGED <<now, memory_cache, memory_cache_expiry, redis_kind, redis_store,
                   reply, touched, after>>

(***************************************************************************)
(* CacheService.set, up to its suspension: json.dumps, the fast-tier write *)
(* with l1_ttl, then the request to the shared tier.                       *)
(***************************************************************************)
SetStart(t, k, v, s) ==
    /\ pc[t] = "idle"
    /\ enabled
    /\ memory_cache' = Put(memory_cache, k, dumps(v))
    /\ memory_cache_expiry' = Put(memory_cache_expiry, k, now + l1_ttl(s))
    /\ pc' = [pc EXCEPT ![t] = "set_l2"]
    /\ key' = [key EXCEPT ![t] = k]
    /\ val' = [val EXCEPT ![t] = v]
    /\ ttl' = [ttl EXCEPT ![t] = s]
    /\ quiet' = QuietStep(t, "alone", "writes")
    /\ last' = Other
    /\ lastSet' = [lastSet EXCEPT ![k] = v]
    /\ served' = Forget(k)
    /\ UNCHANGED <<now, redis_kind, redis_store, reply, touched, after>>

(***************************************************************************)
(* await redis.setex(key, ttl_seconds, json_str): stored with its TTL, or  *)
(* the write fails (MockRedis has no setex) and set logs and returns.      *)
(***************************************************************************)
RedisSetexExec(t) ==
    /\ pc[t] = "set_l2"
    /\ \/ /\ redis_kind = "redis"
          /\ redis_store' = Put(redis_store, key[t],
                                [val |-> dumps(val[t]), exp |-> now + ttl[t]])
          /\ last' = Ev("set", t, key[t], val[t], None, "ok", "none", "none", quiet[t])
       \/ /\ UNCHANGED redis_store
          /\ last' = Ev("set", t, key[t], val[t], None, "error", "none", "none", quiet[t])
    /\ Returned(t, "writes")
    /\ served' = Forget(key[t])
    /\ UNCHANGED <<now, memory_cache, memory_cache_expiry, redis_kind, lastSet>>

(***************************************************************************)
(* CacheService.delete, up to its suspension: the fast tier is cleared of  *)
(* the key, then the request to the shared tier.                           *)
(***************************************************************************)
DeleteStart(t, k) ==
    /\ pc[t] = "idle"
    /\ memory_cache' = Del(memory_cache, k)
    /\ memory_cache_expiry' =
          IF InMemory(k) THEN Del(memory_cache_expiry, k) ELSE memory_cache_expiry
    /\ pc' = [pc EXCEPT ![t] = "del_l2"]
    /\ key' = [key EXCEPT ![t] = k]
    /\ quiet' = QuietStep(t, "alone", "writes")
    /\ last' = Other
    /\ lastSet' = [lastSet EXCEPT ![k] = None]
    /\ served' = Forget(k)
    /\ UNCHANGED <<now, redis_kind, redis_store, val, ttl, reply, touched, after>>

(***************************************************************************)
(* await redis.delete(key): removed from the shared tier, or the call      *)
(* fails (MockRedis has no delete) and delete logs and returns.            *)
(***************************************************************************)
RedisDeleteExec(t) ==
    /\ pc[t] = "del_l2"
    /\ \/ /\ redis_kind = "redis"
          /\ redis_store' = Del(redis_store, key[t])
          /\ last' = Ev("delete", t, key[t], None, None, "ok", "none", "none", quiet[t])
       \/ /\ UNCHANGED redis_store
          /\ last' = Ev("delete", t, key[t], None, None, "error", "none", "none", quiet[t])
    /\ Returned(t, "writes")
    /\ served' = Forget(key[t])
    /\ UNCHANGED <<now, memory_cache, memory_cache_expiry, redis_kind, lastSet>>

\* A clear_memory that forgets the expiry dict.
ClearMemory_ValuesOnly ==
    /\ memory_cache' = EmptyDict
    /\ quiet' = AllDisturbed("writes")
    /\ last' = Ev("clear", 0, AKey, None, None, "none", "none", "none", "alone")
    /\ UNCHANGED <<now, memory_cache_expiry, redis_kind, redis_store, pc, key, val,
                   ttl, reply, touched, after, lastSet, served>>

(***************************************************************************)
(* CacheService.clear_memory                                               *)
(***************************************************************************)
ClearMemory ==
    /\ memory_cache' = EmptyDict
    /\ memory_cache_expiry' = [k \in {} |-> 0]
    /\ quiet' = AllDisturbed("writes")
    /\ last' = Ev("clear", 0, AKey, None, None, "none", "none", "none", "alone")
    /\ UNCHANGED <<now, redis_kind, redis_store, pc, key, val, ttl, reply,
                   touched, after, lastSet, served>>

\* The shared tier drops an entry when its TTL has run out.
Live(store, time) == [k \in {j \in DOMAIN store : time < store[j].exp} |-> store[k]]

(***************************************************************************)
(* The clock advances.                                                     *)
(***************************************************************************)
Tick ==
    /\ \E d \in TickSteps :
          /\ now + d <= MaxTime
          /\ now' = now + d
          /\ redis_store' = Live(redis_store, now + d)
    /\ quiet' = AllDisturbed("reads")
    /\ last' = Other
    /\ UNCHANGED <<memory_cache, memory_cache_expiry, redis_kind, pc, key, val,
                   ttl, reply, touched, after, lastSet, served>>

CacheNext ==
    \/ \E t \in Tasks, k \in Keys : GetStart(t, k) /\ UNCHANGED exceptCache
    \/ \E t \in Tasks : RedisGetExec(t) /\ UNCHANGED exceptCache
    \/ \E t \in Tasks : GetResume(t) /\ UNCHANGED exceptCache
    \/ \E t \in Tasks, k \in Keys, v \in Payloads, s \in TTLs :
          SetStart(t, k, v, s) /\ UNCHANGED exceptCache
    \/ \E t \in Tasks : RedisSetexExec(t) /\ UNCHANGED exceptCache
    \/ \E t \in Tasks, k \in Keys : DeleteStart(t, k) /\ UNCHANGED exceptCache
    \/ \E t \in Tasks : RedisDeleteExec(t) /\ UNCHANGED exceptCache
    \/ ClearMemory /\ UNCHANGED exceptCache
    \/ Tick /\ UNCHANGED exceptCache

(***************************************************************************)
(* The alert monitoring loop (services/alert_service.py), the event queue  *)
(* it pushes to (services/sse_manager.py) and the documents it reads and   *)
(* writes.  An optional value is a sequence: <<>> is None, <<v>> is v.     *)
(***************************************************************************)
Loops == 1..NumLoops
Users == {"u1", "u2"}

\* The active alerts in the order the store streams them, and their fields.
AlertOrder == <<"a1", "a2">>

AlertIds == {AlertOrder[i] : i \in 1..Len(AlertOrder)}

AlertData ==
    [a \in AlertIds |->
        IF a = "a1"
        THEN [userId |-> "u1", name |-> "heat", type |-> "temperature",
              comparison |-> "greater_than", thresholdValue |-> 30]
        ELSE [userId |-> "u2", name |-> "humid", type |-> "humidity",
              comparison |-> "equals", thresholdValue |-> 30]]

\* asyncio.sleep(900), asyncio.sleep(60), the 86400 s of the cooldown.
check_interval == 900
retry_delay == 60
cooldown == 86400

\* The weather a fetch returns: every metric reads v (<<>>: the provider
\* sent no value for it).
Weather(v) == [temperature |-> v, humidity |-> v, windSpeed |-> v, precipitation |-> v]

Observed == {<<30>>, <<31>>, <<>>}

\* How the fetch of _process_alert ends: a weather dict, or an exception
\* (RetryError, CircuitBreakerError).
FetchOutcomes == {[ok |-> TRUE, v |-> v] : v \in Observed} \cup {[ok |-> FALSE, v |-> <<>>]}

\* How the two writes of _trigger_alert end.
DbOutcomes == {"ok", "update_fails", "add_fails"}

NoDoc == [id |-> "a1", lastTriggered |-> <<>>]

Quiet == [kind |-> "none", loop |-> 0, alert |-> "a1", value |-> <<>>,
          lt |-> <<>>, outcome |-> "none"]

\* The alert documents as their owners created them.
StoredAlerts ==
    [a \in AlertIds |->
        [name |-> AlertData[a].name, type |-> AlertData[a].type,
         thresholdValue |-> AlertData[a].thresholdValue,
         comparison |-> AlertData[a].comparison, location |-> "Paris",
         userId |-> AlertData[a].userId, active |-> TRUE]]

AlertInit ==
    /\ utc = 0
    /\ is_running = FALSE
    /\ tz_aware \in BOOLEAN
    /\ lpc = [l \in Loops |-> "none"]
    /\ snapshot = [l \in Loops |-> <<>>]
    /\ idx = [l \in Loops |-> 0]
    /\ wake = [l \in Loops |-> 0]
    /\ delay = [l \in Loops |-> 0]
    /\ load_failed = [l \in Loops |-> FALSE]
    /\ processed = [l \in Loops |-> <<>>]
    /\ failed = [l \in Loops |-> FALSE]
    /\ lastTriggered = [a \in AlertIds |-> <<>>]
    /\ triggerCount = [a \in AlertIds |-> 0]
    /\ alert_history = <<>>
    /\ alert_docs = StoredAlerts
    /\ alast = Quiet

SseInit ==
    /\ connections = {}
    /\ pending_events = [u \in {} |-> <<>>]
    /\ next_seq = 1
    /\ delivered = [u \in Users |-> <<>>]

\* The arguments _check_condition is called with: the alert's type,
\* comparison and threshold, and the metric the weather holds.
AlertTypes == {"temperature", "humidity", "wind_speed", "precipitation", "pressure"}
Comparisons == {"greater_than", "less_than", "equals", "not_equals", "GREATER_THAN"}
Thresholds == {0, 29, 30, 31}
Metrics == {<<29>>, <<30>>, <<31>>, <<0>>, <<>>}

CondInputs ==
    [type : AlertTypes, comparison : Comparisons, thresholdValue : Thresholds,
     metric : Metrics]

NoResult == [raised |-> FALSE, is_met |-> FALSE, current_value |-> <<>>, called |-> FALSE]

ACond == [type |-> "temperature", comparison |-> "greater_than", thresholdValue |-> 30,
          metric |-> <<31>>]

\* The route handlers of /current/{city} and /poll/{city}: no request yet.
NoResponse ==
    [kind |-> "none", t |-> 0, handler |-> "current", source |-> "none",
     location |-> "none", further |-> FALSE, ttl |-> 0]

RouteInit ==
    /\ rpc = [t \in Tasks |-> "idle"]
    /\ rh = [t \in Tasks |-> "current"]
    /\ rfurther = [t \in Tasks |-> FALSE]
    /\ first_at = <<>>
    /\ rlast = NoResponse

\* No function called yet.
NoCallYet == [fn |-> "none"]

FnInit ==
    /\ fn_in = NoCallYet
    /\ fn_out = NoCallYet

\* The alert loop, the event queue, _check_condition and the routes at rest.
\* sse_manager = SSEManager() of api/sse_routes.py
StreamInit ==
    /\ stream_connections = {}
    /\ stream_pending = [u \in {} |-> <<>>]
    /\ yielded = [u \in Users |-> <<>>]

\* The keys otp:{email} and otp_attempts:{email} of one email.
Emails == {"a@x.io"}
Codes == {"111111", "222222"}
AnEmail == CHOOSE e \in Emails : TRUE
ACode == CHOOSE c \in Codes : TRUE
NoOtpCall == [kind |-> "none", email |-> AnEmail, result |-> FALSE]

\* An empty Redis, no call of the OTP service in flight.
OtpInit ==
    /\ otp_key = [e \in Emails |-> <<>>]
    /\ otp_attempts = [e \in Emails |-> <<>>]
    /\ vpc = [t \in Tasks |-> "idle"]
    /\ vemail = [t \in Tasks |-> AnEmail]
    /\ votp = [t \in Tasks |-> ACode]
    /\ stored_otp = [t \in Tasks |-> ACode]
    /\ accepted = [e \in Emails |-> 0]
    /\ compared = [e \in Emails |-> 0]
    /\ olast = NoOtpCall

NoReply == [op |-> "none", status |-> 0]

\* An owner without alerts, no request in flight.
CrudInit ==
    /\ user_alerts = [f \in BOOLEAN |-> 0]
    /\ cpc = [t \in Tasks |-> "idle"]
    /\ clast = NoReply

Resting ==
    /\ StreamInit
    /\ CrudInit
    /\ OtpInit
    /\ AlertInit
    /\ tz_aware = FALSE
    /\ SseInit
    /\ cond_in = ACond
    /\ cond_out = NoResult
    /\ RouteInit

AtRest == Resting /\ FnInit

\* The cache beside a provider client at rest.
Init == CacheInit /\ BreakerInit /\ AtRest

CacheSpec == Init /\ [][CacheNext]_vars

(***************************************************************************)
(* The tiered cache: properties.                                           *)
(***************************************************************************)
InShared(k) == k \in DOMAIN redis_store

\* C1: a get that directly follows the same request's set(key, v, ttl), with
\* no step of another call and no tick of the clock since that set began,
\* returns v, whether the shared-tier write of the set succeeded or failed
\* (a failing Redis, or MockRedis, which has no setex).
C1_SetThenGet ==
    (last.kind = "get" /\ last.after \in {"set_ok", "set_failed"})
        => last.ret = last.val

\* C1, witness: such a get has returned the payload after a set whose
\* shared-tier write failed.
C1_Witness ==
    /\ last.kind = "get"
    /\ last.after = "set_failed"
    /\ last.ret \in Payloads
    /\ ~InShared(last.key)

\* The shared tier holds, for key k, the string the latest set on k wrote.
SharedHoldsLatest(k) ==
    /\ lastSet[k] # None
    /\ InShared(k)
    /\ redis_store[k].val = dumps(lastSet[k])

\* C2: a get that misses the fast tier (its entry has expired) while the
\* shared tier still holds the entry of the latest set, and whose shared-tier
\* lookup answers, returns the payload of that set from the shared tier and
\* leaves an unexpired fast-tier entry for the key.
C2_SharedTierServes ==
    (/\ last.kind = "get"
     /\ last.quiet = "alone"
     /\ last.src \notin {"l1", "l1_decode_error", "lookup_error"}
     /\ SharedHoldsLatest(last.key))
        => (/\ last.src = "l2"
            /\ last.ret = lastSet[last.key]
            /\ MemoryHit(last.key)
            /\ memory_cache[last.key] = redis_store[last.key].val)

\* C2, witness: a get found the fast-tier entry expired, purged it, was
\* served the latest set's payload by the shared tier and backfilled.
C2_Witness ==
    /\ last.kind = "get"
    /\ last.quiet = "alone"
    /\ last.touched = "purge+backfill"
    /\ last.src = "l2"
    /\ SharedHoldsLatest(last.key)
    /\ last.ret = lastSet[last.key]
    /\ now >= L1_TTL
    /\ MemoryHit(last.key)

\* C3: the lifetime of a fast-tier entry is contained in that of the
\* shared-tier entry of its key; stated for the states in which no call is
\* in flight and a get has just backfilled the fast tier from the shared
\* tier with no other step beside it.
C3_FastWithinShared ==
    (/\ \A t \in Tasks : pc[t] = "idle"
     /\ last.kind = "get"
     /\ last.quiet = "alone"
     /\ last.src = "l2")
        => \A k \in Keys :
              MemoryHit(k) =>
                  (InShared(k) /\ memory_cache_expiry[k] <= redis_store[k].exp)

\* C4: when delete(key) returns after a successful shared-tier delete, and
\* beside it only get calls have stepped (no set, delete or clear_memory
\* since the delete began), neither tier holds the key.
C4_DeleteRemoves ==
    (/\ last.kind = "delete"
     /\ last.src = "ok"
     /\ last.quiet \in {"alone", "reads"})
        => (~InMemory(last.key) /\ ~InShared(last.key))

\* The ways a get fails: the shared-tier lookup or the client acquisition,
\* and json.loads of a fast-tier or of a shared-tier string.
GetFailures == {"lookup_error", "l1_decode_error", "l2_decode_error"}

\* C5 as claimed: a get that ends in a failure (shared-tier lookup, client
\* acquisition, payload decoding) returns None and has left the fast tier
\* as it was.
C5_FailedGetLeavesTiers ==
    (last.kind = "get" /\ last.src \in GetFailures)
        => (last.ret = None /\ last.touched = "none")

\* A step of a get call.
GetStep ==
    \/ last'.kind = "get"
    \/ \E t \in Tasks : pc'[t] \in {"get_l2", "get_resume"} /\ pc'[t] # pc[t]

\* C5, amended: get never raises and returns None on a failure; no step of
\* get changes the shared tier; a get whose shared-tier lookup or client
\* acquisition failed has changed the fast tier at most by the purge of the
\* key's expired entry.  (json.loads does not fail on the strings set
\* stores; were a shared-tier string undecodable, the backfill would have
\* stored it in the fast tier before json.loads raised.)
C5_GetNeverRaises ==
    [][/\ last'.kind = "get" => last'.ret \in Payloads \cup {None}
       /\ (last'.kind = "get" /\ last'.src \in GetFailures)
              => last'.ret = None
       /\ GetStep => redis_store' = redis_store
       /\ (last'.kind = "get" /\ last'.src = "lookup_error")
              => last'.touched \in {"none", "purge"}
       /\ (last'.kind = "get" /\ last'.src = "l1_decode_error")
              => last'.touched = "none"
       /\ (last'.kind = "get" /\ last'.src = "l2_decode_error")
              => (/\ last'.touched \in {"backfill", "purge+backfill"}
                  /\ last'.key \in DOMAIN memory_cache'
                  /\ ~WellFormed(memory_cache'[last'.key]))]_vars

\* C5, witness: a get purged an expired entry and then its shared-tier
\* lookup failed.
C5_Witness ==
    /\ last.kind = "get"
    /\ last.src = "lookup_error"
    /\ last.touched = "purge"
    /\ last.ret = None

\* C6: the gets on a key that ran with no other step beside them, with no
\* step of a set or delete on that key between them, and that returned a
\* payload, all returned the same payload.
C6_IdempotentReads == \A k \in Keys : Cardinality(served[k]) <= 1

\* C7: clear_memory empties the values and the expiries of the fast tier and
\* leaves the shared tier unchanged; a get that directly follows it, with no
\* other step beside it, for a key whose payload the shared tier holds,
\* returns that payload.
C7_ClearMemoryLocal ==
    [][/\ last'.kind = "clear"
              => (/\ DOMAIN memory_cache' = {}
                  /\ DOMAIN memory_cache_expiry' = {}
                  /\ redis_store' = redis_store)
       /\ (/\ last'.kind = "get"
           /\ last'.after = "clear"
           /\ last'.quiet = "alone"
           /\ last'.src # "lookup_error"
           /\ InShared(last'.key)
           /\ WellFormed(redis_store[last'.key].val))
              => (/\ last'.src = "l2"
                  /\ last'.ret = loads(redis_store[last'.key].val))]_vars

\* C7, witness: a get directly after clear_memory was served by the shared
\* tier.
C7_Witness ==
    /\ last.kind = "get"
    /\ last.after = "clear"
    /\ last.quiet = "alone"
    /\ last.src = "l2"
    /\ last.ret \in Payloads

(***************************************************************************)
(* circuitbreaker.CircuitBreaker: the state a caller sees.  HALF_OPEN is   *)
(* not stored: it is OPEN read after the recovery timeout has run out.     *)
(***************************************************************************)
open_remaining(o) == recovery_timeout - (clock - opened[o])

State(o) ==
    IF state[o] = "open" /\ open_remaining(o) <= 0 THEN "half_open" ELSE state[o]

is_opened(o) == State(o) = "open"

\* The call begins within recovery_timeout of a fifth consecutive failure.
InWindow(o) == tripped[o] >= 0 /\ clock < tripped[o] + recovery_timeout

\* The locals of task t once its provider call has returned.
CallReturned(t) ==
    /\ wpc' = [wpc EXCEPT ![t] = "idle"]
    /\ wop' = [wop EXCEPT ![t] = AnOp]
    /\ attempt_number' = [attempt_number EXCEPT ![t] = 0]
    /\ prev' = [prev EXCEPT ![t] = "none"]
    /\ trial' = [trial EXCEPT ![t] = FALSE]
    /\ in_window' = [in_window EXCEPT ![t] = FALSE]

(***************************************************************************)
(* A task calls operation o.  The breaker's wrapper raises                 *)
(* CircuitBreakerError when the breaker is opened; otherwise the retrying  *)
(* call begins and its first attempt sends its HTTP requests.              *)
(***************************************************************************)
Call(t, o) ==
    /\ wpc[t] = "idle"
    /\ IF is_opened(o)
       THEN /\ wlast' = Done(o, "CircuitBreakerError", 0, FALSE, InWindow(o))
            /\ UNCHANGED <<wpc, wop, attempt_number, prev, trial, in_window>>
       ELSE /\ wpc' = [wpc EXCEPT ![t] = "attempt"]
            /\ wop' = [wop EXCEPT ![t] = o]
            /\ attempt_number' = [attempt_number EXCEPT ![t] = 1]
            /\ trial' = [trial EXCEPT ![t] = State(o) = "half_open"]
            /\ in_window' = [in_window EXCEPT ![t] = InWindow(o)]
            /\ wlast' = NoCall
            /\ UNCHANGED prev
    /\ UNCHANGED <<clock, state, failure_count, opened, streak, tripped>>

\* CircuitBreaker.__call_succeeded
call_succeeded(o) ==
    /\ state' = [state EXCEPT ![o] = "closed"]
    /\ failure_count' = [failure_count EXCEPT ![o] = 0]
    /\ streak' = [streak EXCEPT ![o] = 0]
    /\ UNCHANGED <<opened, tripped>>

\* CircuitBreaker.__call_failed
call_failed(o) ==
    /\ failure_count' = [failure_count EXCEPT ![o] = @ + 1]
    /\ IF failure_count[o] + 1 >= failure_threshold
       THEN /\ state' = [state EXCEPT ![o] = "open"]
            /\ opened' = [opened EXCEPT ![o] = clock]
       ELSE UNCHANGED <<state, opened>>
    /\ streak' = [streak EXCEPT ![o] = @ + 1]
    /\ tripped' = IF streak[o] + 1 >= 5 THEN [tripped EXCEPT ![o] = clock] ELSE tripped

\* A get_historical_weather whose except clause lets the error through.
HistoricalExcept_Reraise == "raise"

\* The except clause of get_historical_weather: the error is logged and []
\* returned.
HistoricalExcept == "empty"

\* What the decorated body hands to @retry for an attempt that ended with
\* out: its result, [] ("empty"), or the exception ("raise").
Body(o, out) ==
    IF out = "ok" THEN "ok"
    ELSE IF o = HistoricalOp THEN HistoricalExcept ELSE "raise"

(***************************************************************************)
(* An attempt of the call of task t ends with outcome out.  A result is    *)
(* returned through the breaker, which closes.  Any exception is retried   *)
(* (the retry decorator names no exception class) until                    *)
(* stop_after_attempt; then RetryError reaches the breaker as one failure. *)
(***************************************************************************)
AttemptDone(t, out) ==
    /\ wpc[t] = "attempt"
    /\ LET o == wop[t]
           n == attempt_number[t]
       IN  IF Body(o, out) # "raise"
           THEN /\ call_succeeded(o)
                /\ CallReturned(t)
                /\ wlast' = Done(o, Body(o, out), n, trial[t], in_window[t])
           ELSE IF n < stop_after_attempt
           THEN /\ wpc' = [wpc EXCEPT ![t] = "wait"]
                /\ prev' = [prev EXCEPT ![t] = Class(out)]
                /\ wlast' = NoCall
                /\ UNCHANGED <<state, failure_count, opened, streak, tripped,
                               wop, attempt_number, trial, in_window>>
           ELSE /\ call_failed(o)
                /\ CallReturned(t)
                /\ wlast' = Done(o, "RetryError", n, trial[t], in_window[t])
    /\ UNCHANGED clock

(***************************************************************************)
(* The backoff sleep of task t is over: the next attempt sends its HTTP    *)
(* requests.  The breaker is not consulted again.                          *)
(***************************************************************************)
RetrySleepDone(t) ==
    /\ wpc[t] = "wait"
    /\ wpc' = [wpc EXCEPT ![t] = "attempt"]
    /\ attempt_number' = [attempt_number EXCEPT ![t] = @ + 1]
    /\ wlast' = NoCall
    /\ UNCHANGED <<clock, state, failure_count, opened, wop, prev, trial, in_window,
                   streak, tripped>>

(***************************************************************************)
(* The monotonic clock advances.                                           *)
(***************************************************************************)
BreakerTick ==
    /\ \E d \in ClockSteps :
          /\ clock + d <= MaxClock
          /\ clock' = clock + d
    /\ wlast' = NoCall
    /\ UNCHANGED <<state, failure_count, opened, wpc, wop, attempt_number, prev,
                   trial, in_window, streak, tripped>>

BreakerNext ==
    \/ \E t \in Tasks, o \in Ops : Call(t, o) /\ UNCHANGED exceptBreaker
    \/ \E t \in Tasks, out \in Outcomes : AttemptDone(t, out) /\ UNCHANGED exceptBreaker
    \/ \E t \in Tasks : RetrySleepDone(t) /\ UNCHANGED exceptBreaker
    \/ BreakerTick /\ UNCHANGED exceptBreaker

\* The provider client beside a cache at rest on a real Redis.
ClientInit == CacheInit /\ redis_kind = "redis" /\ BreakerInit /\ AtRest

BreakerSpec == ClientInit /\ [][BreakerNext]_vars

(***************************************************************************)
(* The provider client: properties.                                        *)
(***************************************************************************)
\* C8: once an operation has failed 5 times in a row its breaker is OPEN,
\* and no call of that operation that begins within the following 60 s is
\* let through to the upstream; a breaker is OPEN only after 5 consecutive
\* failures.
C8_OpenFailsFast ==
    /\ \A o \in Ops : streak[o] >= 5 <=> state[o] = "open"
    /\ \A t \in Tasks : wpc[t] # "idle" => ~in_window[t]
    /\ (wlast.kind = "call" /\ wlast.in_window)
           => (wlast.result = "CircuitBreakerError" /\ wlast.attempts = 0)

\* The calls of operation o in flight that were let through as trial calls.
Trials(o) == {t \in Tasks : wpc[t] # "idle" /\ wop[t] = o /\ trial[t]}

\* C9: once the recovery window of an OPEN breaker has elapsed, at most one
\* call is let through as the trial call, whatever tasks call concurrently;
\* a trial call that succeeds leaves the breaker CLOSED, one that fails
\* leaves it OPEN with a window that starts at the failure.
C9_OneTrialCall ==
    /\ \A o \in Ops : Cardinality(Trials(o)) <= 1
    /\ (wlast.kind = "call" /\ wlast.trial /\ wlast.result = "ok")
           => State(wlast.op) = "closed"
    /\ (wlast.kind = "call" /\ wlast.trial /\ wlast.result = "RetryError")
           => (state[wlast.op] = "open" /\ opened[wlast.op] = clock)

\* C10: a call makes at most 3 upstream attempts, and an attempt after the
\* first is made only when the attempt before it ended in a transient
\* failure (network error, timeout, 5xx).
C10_RetryOnlyTransient ==
    \A t \in Tasks :
        wpc[t] # "idle" =>
            (/\ attempt_number[t] <= 3
             /\ attempt_number[t] > 1 => prev[t] = "transient")

\* The operations get_historical_weather is checked beside: its own, and
\* one whose failures do reach the breaker.
HistoryOps == {"get_forecast", HistoricalOp}

HistoryNext ==
    \/ \E t \in Tasks, o \in HistoryOps : Call(t, o) /\ UNCHANGED exceptBreaker
    \/ \E t \in Tasks, out \in Outcomes : AttemptDone(t, out) /\ UNCHANGED exceptBreaker
    \/ \E t \in Tasks : RetrySleepDone(t) /\ UNCHANGED exceptBreaker
    \/ BreakerTick /\ UNCHANGED exceptBreaker

HistorySpec == ClientInit /\ [][HistoryNext]_vars

\* C11: a call of get_historical_weather always returns a list: its one
\* attempt ends the call, with the transformed data or, whenever the
\* request, the status check or the transform failed, with the empty list;
\* it is never retried, never ends in RetryError, and its breaker, which
\* therefore never sees a failure, never rejects it.
C11_HistoricalDegrades ==
    /\ [](/\ (wlast.kind = "call" /\ wlast.op = HistoricalOp)
                => (wlast.result \in {"ok", "empty"} /\ wlast.attempts = 1)
          /\ \A t \in Tasks : wop[t] = HistoricalOp => wpc[t] # "wait"
          /\ state[HistoricalOp] = "closed" /\ failure_count[HistoricalOp] = 0)
    /\ [][\A t \in Tasks :
             (wpc[t] = "attempt" /\ wop[t] = HistoricalOp /\ wpc'[t] # "attempt")
                 => (/\ wpc'[t] = "idle"
                     /\ wlast'.kind = "call"
                     /\ wlast'.op = HistoricalOp
                     /\ wlast'.result \in {"ok", "empty"})]_vars

\* C11, witness: a call of get_historical_weather returned the empty list
\* while the breaker of get_forecast was open.
C11_Witness ==
    /\ wlast.kind = "call"
    /\ wlast.op = HistoricalOp
    /\ wlast.result = "empty"
    /\ state["get_forecast"] = "open"

(***************************************************************************)
(* AlertService._check_condition                                           *)
(***************************************************************************)
\* weather.get(<the metric of alert_type>, 0); 0.0 for another type.
current_value(alert_type, weather) ==
    IF alert_type = "temperature" THEN weather.temperature
    ELSE IF alert_type = "humidity" THEN weather.humidity
    ELSE IF alert_type = "wind_speed" THEN weather.windSpeed
    ELSE IF alert_type = "precipitation" THEN weather.precipitation
    ELSE <<0>>

\* A greater_than that admits the threshold itself.
greater_than_Inclusive(x, th) == x >= th

\* comparison == 'greater_than'
greater_than(x, th) == x > th

\* The pair _check_condition returns, or the TypeError of ordering None
\* against a number.
check_condition(alert_data, weather) ==
    LET cur == current_value(alert_data.type, weather)
        th == alert_data.thresholdValue
        cmp == alert_data.comparison
    IN  IF cur = <<>> /\ cmp \in {"greater_than", "less_than"}
        THEN [raised |-> TRUE, is_met |-> FALSE, current_value |-> cur, called |-> TRUE]
        ELSE [raised |-> FALSE,
              is_met |-> IF cmp = "greater_than" THEN greater_than(cur[1], th)
                         ELSE IF cmp = "less_than" THEN cur[1] < th
                         ELSE IF cmp = "equals" THEN cur = <<th>>
                         ELSE FALSE,
              current_value |-> cur,
              called |-> TRUE]

(***************************************************************************)
(* SSEManager.send_event and send_alert_trigger                            *)
(***************************************************************************)
Pending(u) == IF u \in DOMAIN pending_events THEN pending_events[u] ELSE <<>>

send_event(u, event_type, data) ==
    /\ pending_events' =
          Put(pending_events, u,
              Append(Pending(u), [type |-> event_type, data |-> data, seq |-> next_seq]))
    /\ next_seq' = next_seq + 1

send_alert_trigger(u, alert_id, alert_name, cur, th) ==
    send_event(u, "alert_triggered",
               [alertId |-> alert_id, alertName |-> alert_name,
                currentValue |-> cur, thresholdValue |-> th])

(***************************************************************************)
(* AlertService.start_monitoring, check_alerts, _process_alert and         *)
(* _trigger_alert.  A loop suspends in the fetch of an alert's weather and *)
(* in asyncio.sleep; everything between two suspensions is one step.       *)
(***************************************************************************)
\* list(alerts_ref.stream()): the active alerts as the store holds them now.
IsActive(a) == alert_docs[a].active
ActiveOrder == SelectSeq(AlertOrder, IsActive)

Loaded ==
    [i \in 1..Len(ActiveOrder) |->
        [id |-> ActiveOrder[i], lastTriggered |-> lastTriggered[ActiveOrder[i]]]]

\* An update of the alert document that also deactivates the alert.
TriggerUpdate_Deactivate(t) ==
    [lastTriggered |-> <<t>>, triggerCount |-> "Increment(1)", active |-> FALSE]

\* The fields _trigger_alert passes to update().
TriggerUpdate(t) ==
    [lastTriggered |-> <<t>>, triggerCount |-> "Increment(1)"]

\* DocumentReference.update(fields) on the owner's part of a document: the
\* fields named are set, the others stay.
update(doc, fields) ==
    [f \in DOMAIN doc |-> IF f \in DOMAIN fields THEN fields[f] ELSE doc[f]]

Ids(docs) == [i \in 1..Len(docs) |-> docs[i].id]

\* The except clause of check_alerts: the error is logged, check_alerts
\* returns.
CheckAlertsExcept == "swallow"

\* A _process_alert that lets the error of one alert through.
ProcessExcept_Reraise == "raise"

\* The except clause of _process_alert: the error is logged, the for loop of
\* check_alerts goes on.
ProcessExcept == "swallow"

\* await asyncio.sleep(d), begun at time t.
Sleeps(l, t, d) ==
    /\ lpc' = [lpc EXCEPT ![l] = "sleep"]
    /\ idx' = [idx EXCEPT ![l] = 0]
    /\ wake' = [wake EXCEPT ![l] = t + d]
    /\ delay' = [delay EXCEPT ![l] = d]

\* `while self.is_running` found true at time t: check_alerts loads the
\* alerts (load is "ok" or "raise") and suspends in the first fetch; with no
\* alert or a failed load the loop goes to sleep.
BeginCycle(l, load, t) ==
    /\ alast' = [Quiet EXCEPT !.kind = "begin", !.loop = l, !.outcome = load]
    /\ load_failed' = [load_failed EXCEPT ![l] = (load = "raise")]
    /\ failed' = [failed EXCEPT ![l] = FALSE]
    /\ IF load = "raise"
       THEN /\ snapshot' = [snapshot EXCEPT ![l] = <<>>]
            /\ processed' = [processed EXCEPT ![l] = <<>>]
            /\ Sleeps(l, t, IF CheckAlertsExcept = "raise"
                            THEN retry_delay ELSE check_interval)
       ELSE /\ snapshot' = [snapshot EXCEPT ![l] = Loaded]
            /\ IF Loaded = <<>>
               THEN /\ processed' = [processed EXCEPT ![l] = <<>>]
                    /\ Sleeps(l, t, check_interval)
               ELSE /\ processed' = [processed EXCEPT ![l] = <<Loaded[1].id>>]
                    /\ lpc' = [lpc EXCEPT ![l] = "fetch"]
                    /\ idx' = [idx EXCEPT ![l] = 1]
                    /\ UNCHANGED <<wake, delay>>

(***************************************************************************)
(* start_monitoring is called: the flag is set and the first cycle begins. *)
(***************************************************************************)
StartMonitoring(l, load) ==
    /\ lpc[l] = "none"
    /\ \A j \in Loops : j < l => lpc[j] # "none"
    /\ is_running' = TRUE
    /\ BeginCycle(l, load, utc)
    /\ UNCHANGED <<utc, tz_aware, lastTriggered, triggerCount, alert_history, alert_docs>>

(***************************************************************************)
(* stop_monitoring                                                         *)
(***************************************************************************)
\* A stop_monitoring that leaves the flag as it is.
StopMonitoring_NoFlag ==
    /\ alast' = [Quiet EXCEPT !.kind = "stop"]
    /\ UNCHANGED <<utc, is_running, tz_aware, lpc, snapshot, idx, wake, delay, load_failed,
                   processed, failed, lastTriggered, triggerCount, alert_history,
                   alert_docs>>

StopMonitoring ==
    /\ is_running' = FALSE
    /\ alast' = [Quiet EXCEPT !.kind = "stop"]
    /\ UNCHANGED <<utc, tz_aware, lpc, snapshot, idx, wake, delay, load_failed,
                   processed, failed, lastTriggered, triggerCount, alert_history,
                   alert_docs>>

\* The cooldown test of _trigger_alert on the lastTriggered of the loaded
\* document: subtracting a timezone-aware timestamp from utcnow() raises.
Cooldown(lt) ==
    IF lt = <<>> THEN "go"
    ELSE IF tz_aware THEN "TypeError"
    ELSE IF utc - lt[1] < cooldown THEN "skip" ELSE "go"

(***************************************************************************)
(* The fetch of loop l answers with w: _check_condition, _trigger_alert    *)
(* (cooldown, update of the alert, history entry, event; dbo tells how the *)
(* two writes end), then the next alert's fetch or asyncio.sleep(900).     *)
(***************************************************************************)
FetchDone(l, w, dbo) ==
    /\ lpc[l] = "fetch"
    /\ LET doc == snapshot[l][idx[l]]
           a == doc.id
           data == AlertData[a]
           res == IF w.ok THEN check_condition(data, Weather(w.v)) ELSE NoResult
           cd == Cooldown(doc.lastTriggered)
           outcome ==
               IF ~w.ok THEN "fetch_error"
               ELSE IF res.raised THEN "eval_error"
               ELSE IF ~res.is_met THEN "not_met"
               ELSE IF cd = "skip" THEN "cooldown"
               ELSE IF cd = "TypeError" THEN "trigger_error"
               ELSE IF dbo = "update_fails" THEN "trigger_error"
               ELSE IF dbo = "add_fails" THEN "update_only"
               ELSE "triggered"
           updated == outcome \in {"update_only", "triggered"}
           raises == outcome \in {"fetch_error", "eval_error"} /\ ProcessExcept = "raise"
       IN  /\ lastTriggered' =
                 IF updated THEN [lastTriggered EXCEPT ![a] = <<utc>>] ELSE lastTriggered
           /\ triggerCount' =
                 IF updated THEN [triggerCount EXCEPT ![a] = @ + 1] ELSE triggerCount
           /\ alert_docs' =
                 IF updated
                 THEN [alert_docs EXCEPT ![a] = update(@, TriggerUpdate(utc))]
                 ELSE alert_docs
           /\ alert_history' =
                 IF outcome = "triggered"
                 THEN Append(alert_history,
                             [alertId |-> a, userId |-> data.userId,
                              alertName |-> data.name, triggeredAt |-> utc,
                              currentValue |-> res.current_value,
                              thresholdValue |-> data.thresholdValue])
                 ELSE alert_history
           /\ IF outcome = "triggered"
              THEN send_alert_trigger(data.userId, a, data.name, res.current_value,
                                      data.thresholdValue)
              ELSE UNCHANGED <<pending_events, next_seq>>
           /\ alast' = [kind |-> "eval", loop |-> l, alert |-> a,
                        value |-> res.current_value, lt |-> doc.lastTriggered,
                        outcome |-> outcome]
           /\ failed' = [failed EXCEPT ![l] =
                            @ \/ outcome \in {"fetch_error", "eval_error",
                                              "trigger_error", "update_only"}]
           /\ IF raises \/ idx[l] = Len(snapshot[l])
              THEN /\ Sleeps(l, utc, check_interval)
                   /\ UNCHANGED processed
              ELSE /\ idx' = [idx EXCEPT ![l] = @ + 1]
                   /\ processed' = [processed EXCEPT ![l] =
                                       Append(@, snapshot[l][idx[l] + 1].id)]
                   /\ UNCHANGED <<lpc, wake, delay>>
    /\ UNCHANGED <<utc, is_running, tz_aware, snapshot, load_failed>>

Sleeping == {j \in Loops : lpc[j] = "sleep"}

(***************************************************************************)
(* The sleep of loop l ends (the earliest pending one): the clock is at    *)
(* its wake time, and `while self.is_running` begins the next cycle or     *)
(* ends the loop.                                                          *)
(***************************************************************************)
Wake(l, load) ==
    /\ lpc[l] = "sleep"
    /\ \A j \in Sleeping : wake[l] <= wake[j]
    /\ utc' = wake[l]
    /\ IF is_running
       THEN BeginCycle(l, load, wake[l])
       ELSE /\ lpc' = [lpc EXCEPT ![l] = "exited"]
            /\ alast' = [Quiet EXCEPT !.kind = "exit", !.loop = l]
            /\ UNCHANGED <<snapshot, idx, wake, delay, load_failed, processed, failed>>
    /\ UNCHANGED <<is_running, tz_aware, lastTriggered, triggerCount, alert_history,
                   alert_docs>>

Loads == {"ok", "raise"}

\* What the steps of the alert loop leave alone, and those that push no event.
exceptAlert == <<cacheVars, breakerVars, condVars, routeVars, connections, delivered, fnVars, streamVars, otpVars, crudVars>>
noPush == <<pending_events, next_seq>>

AlertNext ==
    \/ \E l \in Loops, load \in Loads :
          StartMonitoring(l, load) /\ UNCHANGED <<exceptAlert, noPush>>
    \/ StopMonitoring /\ UNCHANGED <<exceptAlert, noPush>>
    \/ \E l \in Loops, w \in FetchOutcomes, dbo \in DbOutcomes :
          FetchDone(l, w, dbo) /\ UNCHANGED exceptAlert
    \/ \E l \in Loops, load \in Loads :
          /\ wake[l] <= MaxAlertTime \/ ~is_running
          /\ Wake(l, load)
          /\ UNCHANGED <<exceptAlert, noPush>>

\* The alert loop beside a cache and a provider client at rest.
MonitorInit ==
    /\ CacheInit /\ redis_kind = "redis" /\ BreakerInit
    /\ AlertInit /\ SseInit /\ cond_in = ACond /\ cond_out = NoResult
    /\ RouteInit
    /\ FnInit
    /\ StreamInit
    /\ OtpInit
    /\ CrudInit

\* Within MaxAlertTime no cooldown runs out: the loop is followed on a store
\* with naive timestamps.
NaiveInit == MonitorInit /\ tz_aware = FALSE

AlertSpec == NaiveInit /\ [][AlertNext]_vars

\* One monitoring loop, an upstream that answers 31 for every metric at
\* every evaluation, and a document store whose writes succeed.
CooldownNext ==
    \/ StartMonitoring(1, "ok") /\ UNCHANGED <<exceptAlert, noPush>>
    \/ FetchDone(1, [ok |-> TRUE, v |-> <<31>>], "ok") /\ UNCHANGED exceptAlert
    \/ /\ wake[1] <= MaxCooldownTime
       /\ Wake(1, "ok")
       /\ UNCHANGED <<exceptAlert, noPush>>

CooldownSpec == MonitorInit /\ [][CooldownNext]_vars

\* The steps loop l takes by itself: a fetch answers, a sleep ends.
LoopStep(l) ==
    \/ \E w \in FetchOutcomes, dbo \in DbOutcomes :
          FetchDone(l, w, dbo) /\ UNCHANGED exceptAlert
    \/ \E load \in Loads :
          /\ wake[l] <= MaxAlertTime \/ ~is_running
          /\ Wake(l, load)
          /\ UNCHANGED <<exceptAlert, noPush>>

\* The event loop runs every task that is ready: a fetch ends (the client
\* times out after 10 s) and a sleep ends.
AlertFairSpec == AlertSpec /\ \A l \in Loops : WF_vars(LoopStep(l))

(***************************************************************************)
(* The alert loop: properties.                                             *)
(***************************************************************************)
\* The TriggerEvents of alert a, as positions of alert_history.
EventsOf(a) == {i \in 1..Len(alert_history) : alert_history[i].alertId = a}

\* C12: with one monitoring loop and alert a1 (temperature greater_than 30)
\* observing 31 at every evaluation: two TriggerEvents of a1 are at least
\* 24 hours apart, and an evaluation of a1 made 24 hours or more after its
\* last trigger does trigger.
C12_OncePerWindow ==
    /\ \A i, j \in EventsOf("a1") :
          i < j => alert_history[j].triggeredAt - alert_history[i].triggeredAt >= cooldown
    /\ (/\ alast.kind = "eval"
        /\ alast.alert = "a1"
        /\ alast.lt # <<>>
        /\ utc - alast.lt[1] >= cooldown)
           => alast.outcome = "triggered"

InCycle == {l \in Loops : lpc[l] = "fetch"}

\* C13: at most one check cycle is in progress, and a cycle begins only when
\* no other loop is in a cycle or in the sleep that follows one.
C13_OneCycleAtATime ==
    /\ Cardinality(InCycle) <= 1
    /\ alast.kind = "begin"
          => \A j \in Loops \ {alast.loop} : lpc[j] \in {"none", "exited"}

\* C14: a cycle whose loading of the alerts raised leaves the loop alive,
\* asleep for 60 seconds.
C14_DriverFailureDelay ==
    \A l \in Loops :
        load_failed[l] => (lpc[l] = "sleep" => delay[l] = retry_delay)

\* C15: within a cycle the alerts loaded are passed to _process_alert one
\* after the other in load order, whatever failed for the ones before: in a
\* cycle the alerts processed so far are the first idx of those loaded, and
\* when the loop sleeps after a cycle whose load succeeded they are all of
\* them.
C15_CycleGoesOn ==
    \A l \in Loops :
        /\ lpc[l] = "fetch" =>
              (/\ idx[l] \in 1..Len(snapshot[l])
               /\ processed[l] = SubSeq(Ids(snapshot[l]), 1, idx[l]))
        /\ (lpc[l] = "sleep" /\ ~load_failed[l]) => processed[l] = Ids(snapshot[l])

\* C15, witness: an alert of the cycle failed and the next one is being
\* processed.
C15_Witness ==
    \E l \in Loops :
        /\ lpc[l] = "fetch"
        /\ idx[l] = 2
        /\ failed[l]
        /\ alast.kind = "eval"
        /\ alast.loop = l
        /\ alast.outcome \in {"fetch_error", "eval_error"}

\* The alert_triggered events queued for the owner of alert a.
PushedOf(a) ==
    LET q == Pending(AlertData[a].userId)
    IN  {i \in 1..Len(q) : q[i].type = "alert_triggered" /\ q[i].data.alertId = a}

\* C16: per alert, triggerCount, the number of its TriggerEvents and the
\* number of alert_triggered events pushed for its owner are equal, and
\* lastTriggered is set exactly when the alert has triggered.
C16_TriggerEffects ==
    \A a \in AlertIds :
        /\ triggerCount[a] = Cardinality(EventsOf(a))
        /\ triggerCount[a] = Cardinality(PushedOf(a))
        /\ lastTriggered[a] # <<>> <=> triggerCount[a] > 0

\* No loop is left: none was started, or each has ended.
AllExited == \A l \in Loops : lpc[l] \in {"none", "exited"}

\* C17: start_monitoring sets the flag and stop_monitoring only clears it;
\* a cycle begins only while the flag is set; the loop that is in a cycle
\* goes on to its next alert or to its sleep, whatever the flag; and once
\* the flag is cleared, unless start_monitoring sets it again, every loop
\* ends.
C17_StopAtBoundary ==
    /\ [](alast.kind = "begin" => is_running)
    /\ [][alast'.kind = "stop"
             => (~is_running' /\ lpc' = lpc /\ idx' = idx /\ wake' = wake)]_vars
    /\ [][\A l \in Loops :
             /\ lpc[l] = "fetch" => lpc'[l] \in {"fetch", "sleep"}
             /\ (lpc'[l] = "exited" /\ lpc[l] # "exited")
                   => (lpc[l] = "sleep" /\ ~is_running)]_vars
    /\ (~is_running ~> (is_running \/ AllExited))

\* C17, witness: stop_monitoring was called while loop l was in a cycle, and
\* the loop went on to the next alert of that cycle.
C17_Witness ==
    \E l \in Loops :
        /\ ~is_running
        /\ lpc[l] = "fetch"
        /\ idx[l] = 2
        /\ alast.kind = "eval"
        /\ alast.loop = l

(***************************************************************************)
(* _check_condition as a function of its arguments.                        *)
(***************************************************************************)
exceptCond == <<cacheVars, breakerVars, alertVars, sseVars, routeVars, fnVars, streamVars, otpVars, crudVars>>

\* _check_condition(alert_data, weather) is called on the arguments at hand.
Evaluate ==
    /\ cond_out' = check_condition(cond_in, Weather(cond_in.metric))
    /\ UNCHANGED cond_in

\* Other arguments are at hand.
NewInput ==
    /\ cond_out.called
    /\ cond_in' \in CondInputs
    /\ cond_out' = NoResult

ConditionNext ==
    \/ Evaluate /\ UNCHANGED exceptCond
    \/ NewInput /\ UNCHANGED exceptCond

ConditionInit ==
    /\ CacheInit /\ redis_kind = "redis" /\ BreakerInit
    /\ AtRest

ConditionSpec == ConditionInit /\ [][ConditionNext]_vars

\* C18: a call of _check_condition that returns has compared the observed
\* value of the alert's type with the threshold: an observed value equal to
\* the threshold is met for 'equals' and for no other comparison;
\* 'greater_than' and 'less_than' are the strict orders, 'equals' is
\* equality, and any other comparison string is not met.
C18_StrictComparisons ==
    (cond_out.called /\ ~cond_out.raised) =>
        LET cur == cond_out.current_value
            th == cond_in.thresholdValue
            cmp == cond_in.comparison
        IN  /\ cond_in.type # "pressure" => cur = cond_in.metric
            /\ cur = <<th>> => (cond_out.is_met <=> cmp = "equals")
            /\ cmp = "greater_than" => (cond_out.is_met <=> cur[1] > th)
            /\ cmp = "less_than" => (cond_out.is_met <=> cur[1] < th)
            /\ cmp = "equals" => (cond_out.is_met <=> cur = <<th>>)
            /\ cmp \notin {"greater_than", "less_than", "equals"} => ~cond_out.is_met

\* C18, witness: _check_condition was called with an observed temperature
\* equal to the threshold and comparison 'greater_than', and reported the
\* condition not met.
C18_Witness ==
    /\ cond_out.called
    /\ cond_in.type = "temperature"
    /\ cond_in.comparison = "greater_than"
    /\ cond_in.metric = <<cond_in.thresholdValue>>
    /\ cond_out.current_value = cond_in.metric
    /\ ~cond_out.is_met
    /\ ~cond_out.raised

(***************************************************************************)
(* SSEManager: the connections and the per-user queues of pending events.  *)
(* No method suspends, so each call is one step.  connections holds the    *)
(* keys of self.connections (its lists stay empty); delivered[u] records   *)
(* the non-empty lists get_pending_events(u) has returned.                 *)
(***************************************************************************)
EventTypes == {"alert_triggered", "weather_update"}

AnEventData ==
    [alertId |-> "a1", alertName |-> AlertData["a1"].name,
     currentValue |-> <<31>>, thresholdValue |-> AlertData["a1"].thresholdValue]

add_connection(u) ==
    /\ connections' = connections \cup {u}
    /\ pending_events' =
          IF u \in DOMAIN pending_events THEN pending_events
          ELSE Put(pending_events, u, <<>>)
    /\ UNCHANGED <<next_seq, delivered>>

remove_connection(u) ==
    /\ connections' = connections \ {u}
    /\ pending_events' = Del(pending_events, u)
    /\ UNCHANGED <<next_seq, delivered>>

SendEvent(u, event_type) ==
    /\ next_seq <= MaxEvents
    /\ send_event(u, event_type, AnEventData)
    /\ UNCHANGED <<connections, delivered>>

\* A get_pending_events that returns the queue and leaves it in place.
get_pending_events_NoClear(u) ==
    /\ u \in DOMAIN pending_events
    /\ pending_events[u] # <<>>
    /\ Len(delivered[u]) < MaxEvents
    /\ delivered' = [delivered EXCEPT ![u] = Append(@, pending_events[u])]
    /\ UNCHANGED <<pending_events, connections, next_seq>>

\* get_pending_events(u): [] for a user without a queue; else the queue,
\* which is replaced by a new empty list.
get_pending_events(u) ==
    IF u \notin DOMAIN pending_events
    THEN UNCHANGED <<pending_events, delivered, connections, next_seq>>
    ELSE /\ pending_events' = [pending_events EXCEPT ![u] = <<>>]
         /\ delivered' =
               IF pending_events[u] = <<>> THEN delivered
               ELSE [delivered EXCEPT ![u] = Append(@, pending_events[u])]
         /\ UNCHANGED <<connections, next_seq>>

exceptSse == <<cacheVars, breakerVars, alertVars, condVars, routeVars, fnVars, streamVars, otpVars, crudVars>>

SseNext ==
    \/ \E u \in Users : add_connection(u) /\ UNCHANGED exceptSse
    \/ \E u \in Users : remove_connection(u) /\ UNCHANGED exceptSse
    \/ \E u \in Users, et \in EventTypes : SendEvent(u, et) /\ UNCHANGED exceptSse
    \/ \E u \in Users : get_pending_events(u) /\ UNCHANGED exceptSse

SseSpec == ClientInit /\ [][SseNext]_vars

RECURSIVE Flatten(_)
Flatten(batches) ==
    IF batches = <<>> THEN <<>> ELSE Head(batches) \o Flatten(Tail(batches))

\* The events returned to user u so far, in the order returned.
ReturnedTo(u) == Flatten(delivered[u])

SeqsOf(q) == {q[i].seq : i \in 1..Len(q)}

\* C20: the events returned to a user, over all the calls of
\* get_pending_events, are in the order in which send_event queued them and
\* none is returned twice; an event returned is no longer pending; and no
\* event is returned to two users.
C20_ConsumedOnceFifo ==
    /\ \A u \in Users :
          /\ \A i, j \in 1..Len(ReturnedTo(u)) :
                i < j => ReturnedTo(u)[i].seq < ReturnedTo(u)[j].seq
          /\ SeqsOf(ReturnedTo(u)) \cap SeqsOf(Pending(u)) = {}
    /\ \A u, v \in Users :
          u # v => SeqsOf(ReturnedTo(u)) \cap SeqsOf(ReturnedTo(v)) = {}

\* C20, witness: two calls of get_pending_events for one user have returned
\* events, the first of them more than one, while a later event is pending.
C20_Witness ==
    \E u \in Users :
        /\ Len(delivered[u]) = 2
        /\ Len(delivered[u][1]) = 2
        /\ Pending(u) # <<>>

(***************************************************************************)
(* GET /current/{city} (without force) and GET /poll/{city} of             *)
(* api/weather_routes.py, for one city and the metric units: both derive   *)
(* the key weather_{lat}_{lon}_metric.  A handler suspends in the calls of *)
(* the cache and of the provider.  Payload "p2" is what the provider       *)
(* client returns (location "Unknown"), "p1" the same with the geocoded    *)
(* city as its location.                                                   *)
(***************************************************************************)
City == "Paris"
Handlers == {"current", "poll"}
RouteSteps == {150}
route_ttl == 300

\* transform_current_weather(weather_data, "Unknown", ...)
Fetched == "p2"

Location(v) == IF v = "p1" THEN City ELSE "Unknown"

\* data['location'] = c
WithLocation(v, c) == IF c = City THEN "p1" ELSE "p2"

exceptRoute == <<breakerVars, alertVars, sseVars, condVars, fnVars, streamVars, otpVars, crudVars>>

\* The locals of task t once its handler has returned.
RouteReturned(t) ==
    /\ rpc' = [rpc EXCEPT ![t] = "idle"]
    /\ rh' = [rh EXCEPT ![t] = "current"]
    /\ rfurther' = [rfurther EXCEPT ![t] = FALSE]

\* The handler h of task t returns payload v tagged src; /current sets the
\* location of what it returns to the geocoded city.
Respond(t, h, further, src, v, s) ==
    /\ rlast' = [kind |-> "resp", t |-> t, handler |-> h, source |-> src,
                  location |-> Location(IF h = "current" THEN WithLocation(v, City) ELSE v),
                  further |-> further, ttl |-> s]
    /\ first_at' = IF first_at = <<>> /\ h = "current" /\ src = "api"
                    THEN <<now>> ELSE first_at
    /\ RouteReturned(t)

\* The handler goes on, suspended at pos.
Continue(t, h, further, pos) ==
    /\ rpc' = [rpc EXCEPT ![t] = pos]
    /\ rh' = [rh EXCEPT ![t] = h]
    /\ rfurther' = [rfurther EXCEPT ![t] = further]
    /\ rlast' = NoResponse
    /\ UNCHANGED first_at

\* `if cached_data:` once cache_service.get has returned; a get still
\* suspended leaves the handler waiting.
AfterGet(t, h, further) ==
    IF last'.kind = "get"
    THEN IF last'.ret \in Payloads
         THEN Respond(t, h, further, "cache", last'.ret, 0)
         ELSE Continue(t, h, further, "fetch")
    ELSE Continue(t, h, further, "get")

\* A request arrives: geocoding, then cache_service.get(cache_key).
RouteBegin(t, h) ==
    /\ rpc[t] = "idle"
    /\ GetStart(t, AKey)
    /\ AfterGet(t, h, first_at # <<>>)

\* The shared tier answers the get of the handler, or fails.
RouteRedisGet(t) ==
    /\ rpc[t] = "get"
    /\ RedisGetExec(t)
    /\ AfterGet(t, rh[t], rfurther[t])

RouteGetResume(t) ==
    /\ rpc[t] = "get"
    /\ GetResume(t)
    /\ AfterGet(t, rh[t], rfurther[t])

\* weather_service.get_current_weather returns or raises: /current injects
\* the city and both handlers call cache_service.set(cache_key, ..., 300);
\* an exception becomes HTTP 500.
RouteFetchDone(t, ok) ==
    /\ rpc[t] = "fetch"
    /\ IF ok
       THEN /\ SetStart(t, AKey,
                        IF rh[t] = "current" THEN WithLocation(Fetched, City) ELSE Fetched,
                        route_ttl)
            /\ Continue(t, rh[t], rfurther[t], "set")
       ELSE /\ rlast' = [NoResponse EXCEPT !.kind = "error", !.t = t, !.handler = rh[t],
                                           !.further = rfurther[t]]
            /\ RouteReturned(t)
            /\ last' = Other
            /\ quiet' = AllDisturbed("reads")
            /\ UNCHANGED <<first_at, now, memory_cache, memory_cache_expiry, redis_kind,
                           redis_store, pc, key, val, ttl, reply, touched, after,
                           lastSet, served>>

\* The shared-tier write of the set ends (stored, or failed and logged) and
\* the handler answers with what it fetched.
RouteSetDone(t) ==
    /\ rpc[t] = "set"
    /\ RedisSetexExec(t)
    /\ Respond(t, rh[t], rfurther[t], "api", val[t], ttl[t])

\* The clock advances.
RouteTick ==
    /\ \E d \in RouteSteps :
          /\ now + d <= MaxRouteTime
          /\ now' = now + d
          /\ redis_store' = Live(redis_store, now + d)
    /\ quiet' = AllDisturbed("reads")
    /\ last' = Other
    /\ rlast' = NoResponse
    /\ UNCHANGED <<memory_cache, memory_cache_expiry, redis_kind, pc, key, val,
                   ttl, reply, touched, after, lastSet, served,
                   rpc, rh, rfurther, first_at>>

RouteNext ==
    \/ \E t \in Tasks, h \in Handlers : RouteBegin(t, h) /\ UNCHANGED exceptRoute
    \/ \E t \in Tasks : RouteRedisGet(t) /\ UNCHANGED exceptRoute
    \/ \E t \in Tasks : RouteGetResume(t) /\ UNCHANGED exceptRoute
    \/ \E t \in Tasks, ok \in BOOLEAN : RouteFetchDone(t, ok) /\ UNCHANGED exceptRoute
    \/ \E t \in Tasks : RouteSetDone(t) /\ UNCHANGED exceptRoute
    \/ RouteTick /\ UNCHANGED exceptRoute

RouteSpec == Init /\ [][RouteNext]_vars

\* C19: an answer of /current carries the geocoded city as its location;
\* it is tagged cache only when a set has stored the key, and an answer
\* tagged api has stored the payload with TTL 300; and a request that
\* begins after /current has first answered from the provider, and is
\* answered less than 300 s after that answer, is answered and tagged cache.
C19_SecondRequestFromCache ==
    /\ (rlast.kind = "resp" /\ rlast.handler = "current") =>
          /\ rlast.location = City
          /\ rlast.source = "cache" => lastSet[AKey] # None
          /\ rlast.source = "api" => rlast.ttl = route_ttl
    /\ (/\ rlast.kind \in {"resp", "error"}
        /\ rlast.handler = "current"
        /\ rlast.further
        /\ now < first_at[1] + route_ttl)
           => (rlast.kind = "resp" /\ rlast.source = "cache")

(***************************************************************************)
(* WeatherService.get_forecast and transform_forecast as a function of     *)
(* days and of the number of days the upstream answers with.               *)
(***************************************************************************)
DayInputs == -1..MaxDays
UpstreamLens == {0, 1, 7, 16, 17, 18}

Min(a, b) == IF a < b THEN a ELSE b

\* daily['time'] of an answer of n days.
TimeList(n) == [i \in 1..n |-> i]

\* for i in range(min(len(time_list), days)): forecast.append(...)
transform_forecast(time_list, days) ==
    LET k == Min(Len(time_list), days)
    IN  IF k <= 0 THEN <<>> ELSE SubSeq(time_list, 1, k)

\* params["forecast_days"]
forecast_days(days) == days

\* get_forecast(lat, lon, days) against an upstream that answers n days:
\* the day count it asks for and the list it returns.
get_forecast(days, n) ==
    [fn |-> "get_forecast",
     forecast_days |-> forecast_days(days),
     forecast |-> transform_forecast(TimeList(n), forecast_days(days))]

exceptFn == <<cacheVars, breakerVars, alertVars, sseVars, condVars, routeVars, streamVars, otpVars, crudVars>>

GetForecast ==
    /\ fn_in.fn = "get_forecast"
    /\ fn_out' = get_forecast(fn_in.days, fn_in.upstream)
    /\ UNCHANGED fn_in

NewForecastCall ==
    /\ \E d \in DayInputs, n \in UpstreamLens :
          fn_in' = [fn |-> "get_forecast", days |-> d, upstream |-> n]
    /\ fn_out' = NoCallYet

ForecastNext ==
    \/ GetForecast /\ UNCHANGED exceptFn
    \/ NewForecastCall /\ UNCHANGED exceptFn

ForecastSpec == ClientInit /\ [][ForecastNext]_vars

\* C21: a call of get_forecast asks the upstream for days clamped into
\* [1,16], that is 1 for days below 1 and 16 for days above 16, and returns
\* at most 16 entries.
C21_DaysClamped ==
    fn_out.fn = "get_forecast" =>
        /\ fn_out.forecast_days \in 1..16
        /\ fn_in.days < 1 => fn_out.forecast_days = 1
        /\ fn_in.days > 16 => fn_out.forecast_days = 16
        /\ Len(fn_out.forecast) <= 16

(***************************************************************************)
(* transform_current_weather: the visibility it reports.  Raw visibility   *)
(* is in metres (multiples of 100 here); the reported kilometres are held  *)
(* in tenths of a kilometre.  A missing value is <<>>.                     *)
(***************************************************************************)
RawVisibilities ==
    {<<>>, <<0>>, <<500>>, <<1000>>, <<1500>>, <<2000>>, <<2500>>, <<8000>>,
     <<10000>>, <<24100>>}
WeatherCodes == {<<>>, <<0>>, <<3>>, <<45>>, <<48>>, <<61>>}
Humidities == {<<>>, <<0>>, <<95>>, <<96>>, <<97>>, <<100>>}

\* A fog test that knows code 45 only.
FogCodes_Without48 == {<<45>>}

\* weather_code in [45, 48]
FogCodes == {<<45>>, <<48>>}

\* visibility / 1000.0, in tenths of a kilometre.
to_km(metres) == metres \div 100

\* The 'visibility' of the returned dict; comparing a humidity of None with
\* 95 raises TypeError.
visibility(raw, weather_code, humidity) ==
    IF raw = <<>>
    THEN [fn |-> "transform_current_weather", raised |-> FALSE, visibility |-> 100]
    ELSE IF weather_code \notin FogCodes
    THEN [fn |-> "transform_current_weather", raised |-> FALSE,
          visibility |-> to_km(raw[1])]
    ELSE IF humidity = <<>>
    THEN [fn |-> "transform_current_weather", raised |-> TRUE, visibility |-> 0]
    ELSE [fn |-> "transform_current_weather", raised |-> FALSE,
          visibility |-> IF humidity[1] > 95
                         THEN Min(Min(to_km(raw[1]), 20), 10)
                         ELSE Min(to_km(raw[1]), 20)]

TransformCurrent ==
    /\ fn_in.fn = "transform_current_weather"
    /\ fn_out' = visibility(fn_in.visibility, fn_in.weather_code, fn_in.humidity)
    /\ UNCHANGED fn_in

NewCurrentData ==
    /\ \E r \in RawVisibilities, c \in WeatherCodes, h \in Humidities :
          fn_in' = [fn |-> "transform_current_weather", visibility |-> r,
                    weather_code |-> c, humidity |-> h]
    /\ fn_out' = NoCallYet

VisibilityNext ==
    \/ TransformCurrent /\ UNCHANGED exceptFn
    \/ NewCurrentData /\ UNCHANGED exceptFn

VisibilitySpec == ClientInit /\ [][VisibilityNext]_vars

\* C22: for a raw visibility of m metres, transform_current_weather reports
\* m / 1000 km; with weather code 45 or 48 it reports the smaller of that
\* and 2 km, and the smaller of that and 1 km when humidity is above 95;
\* with any other weather code the value is m / 1000 km whatever it is.
C22_FogVisibility ==
    (/\ fn_out.fn = "transform_current_weather"
     /\ ~fn_out.raised
     /\ fn_in.visibility # <<>>) =>
        LET m == fn_in.visibility[1]
            fog == fn_in.weather_code \in {<<45>>, <<48>>}
            humid == fn_in.humidity # <<>> /\ fn_in.humidity[1] > 95
            out == fn_out.visibility
        IN  /\ ~fog => out * 100 = m
            /\ (fog /\ ~humid) => (out <= 20 /\ (m <= 2000 => out * 100 = m)
                                              /\ (m > 2000 => out = 20))
            /\ (fog /\ humid) => (out <= 10 /\ (m <= 1000 => out * 100 = m)
                                             /\ (m > 1000 => out = 10))

\* C22, witness: raw visibility 8000 m with weather code 45 and humidity 97
\* was reported as 1.0 km.
C22_Witness ==
    /\ fn_out.fn = "transform_current_weather"
    /\ fn_in.visibility = <<8000>>
    /\ fn_in.weather_code = <<45>>
    /\ fn_in.humidity = <<97>>
    /\ fn_out.visibility = 10

(***************************************************************************)
(* utils/nlp_utils.py: extract_city_from_message.  A string is a sequence  *)
(* of characters; a message is its words joined by single spaces.          *)
(***************************************************************************)
UpperLetters ==
    <<"A", "B", "C", "D", "E", "F", "G", "H", "I", "J", "K", "L", "M", "N", "O", "P",
      "Q", "R", "S", "T", "U", "V", "W", "X", "Y", "Z">>
LowerLetters ==
    <<"a", "b", "c", "d", "e", "f", "g", "h", "i", "j", "k", "l", "m", "n", "o", "p",
      "q", "r", "s", "t", "u", "v", "w", "x", "y", "z">>

isupper(c) == \E i \in 1..26 : UpperLetters[i] = c
islower(c) == \E i \in 1..26 : LowerLetters[i] = c
IsLetter(c) == isupper(c) \/ islower(c)

lower(c) ==
    IF isupper(c) THEN LowerLetters[CHOOSE i \in 1..26 : UpperLetters[i] = c] ELSE c

Lower(str) == [i \in 1..Len(str) |-> lower(str[i])]

Hello == <<"H", "e", "l", "l", "o">>
world == <<"w", "o", "r", "l", "d">>
weather == <<"w", "e", "a", "t", "h", "e", "r">>
CapWeather == <<"W", "e", "a", "t", "h", "e", "r">>
today == <<"t", "o", "d", "a", "y">>
tomorrow == <<"t", "o", "m", "o", "r", "r", "o", "w">>
forecast == <<"f", "o", "r", "e", "c", "a", "s", "t">>
temperature == <<"t", "e", "m", "p", "e", "r", "a", "t", "u", "r", "e">>
in == <<"i", "n">>
at == <<"a", "t">>
for == <<"f", "o", "r">>
London == <<"L", "o", "n", "d", "o", "n">>
Rain == <<"R", "a", "i", "n">>

Vocabulary == {Hello, world, weather, CapWeather, today, in, London, Rain}

\* WEATHER_KEYWORDS
WEATHER_KEYWORDS ==
    {weather, temperature, forecast, <<"r", "a", "i", "n">>, <<"s", "u", "n", "n", "y">>,
     <<"c", "l", "o", "u", "d", "y">>, <<"s", "n", "o", "w">>, <<"w", "i", "n", "d">>,
     <<"h", "o", "t">>, <<"c", "o", "l", "d">>,
     <<"h", "u", "m", "i", "d", "i", "t", "y">>}

\* The words a trailing \s+(weather|forecast|temperature|today|tomorrow)$
\* removes.
TrailingWords == {weather, forecast, temperature, today, tomorrow}

RECURSIVE Join(_)
Join(words) ==
    IF Len(words) = 0 THEN <<>>
    ELSE IF Len(words) = 1 THEN words[1]
    ELSE words[1] \o <<" ">> \o Join(Tail(words))

Messages == UNION {[1..n -> Vocabulary] : n \in 1..MaxWords}

\* str[i..] begins with kw, whatever the case (re.IGNORECASE).
HasAt(str, i, kw) ==
    /\ i + Len(kw) - 1 <= Len(str)
    /\ Lower(SubSeq(str, i, i + Len(kw) - 1)) = kw

\* Where kw\s+([A-Z][a-zA-Z\s]+) matches: kw, a space, a letter and at
\* least one more letter or space.
KeywordMatches(str, kw) ==
    {i \in 1..Len(str) :
        /\ HasAt(str, i, kw)
        /\ i + Len(kw) + 2 <= Len(str)
        /\ str[i + Len(kw)] = " "
        /\ IsLetter(str[i + Len(kw) + 1])}

\* Where ^([A-Z][a-zA-Z\s]+)\s+weather matches: the space before a
\* 'weather' that at least two characters precede.
SuffixMatches(str) ==
    {p \in 3..Len(str) : str[p] = " " /\ IsLetter(str[1]) /\ HasAt(str, p + 1, weather)}

Least(S) == CHOOSE i \in S : \A j \in S : i <= j
Greatest(S) == CHOOSE i \in S : \A j \in S : i >= j

\* re.sub(r'\s+(weather|forecast|temperature|today|tomorrow)$', '', city)
StripTrailing(city) ==
    IF \E t \in TrailingWords :
          /\ Len(city) > Len(t)
          /\ city[Len(city) - Len(t)] = " "
          /\ HasAt(city, Len(city) - Len(t) + 1, t)
    THEN LET t == CHOOSE t \in TrailingWords :
                     /\ Len(city) > Len(t)
                     /\ city[Len(city) - Len(t)] = " "
                     /\ HasAt(city, Len(city) - Len(t) + 1, t)
         IN  SubSeq(city, 1, Len(city) - Len(t) - 1)
    ELSE city

Found(city) == [fn |-> "extract_city_from_message", found |-> TRUE, city |-> city]
NotFound == [fn |-> "extract_city_from_message", found |-> FALSE, city |-> <<>>]

\* The fallback looks at every word, from the first.
FallbackFrom == 1

\* The fallback of extract_city_from_message on the words of a message of
\* fewer than five words.
Fallback(words) ==
    LET ok == {i \in FallbackFrom..Len(words) :
                 /\ isupper(words[i][1])
                 /\ Len(words[i]) > 2
                 /\ Lower(words[i]) \notin WEATHER_KEYWORDS}
    IN  IF Len(words) >= 5 \/ ok = {} THEN NotFound
        ELSE LET i == Least(ok)
             IN  IF i + 1 <= Len(words) /\ isupper(words[i + 1][1])
                 THEN Found(words[i] \o <<" ">> \o words[i + 1])
                 ELSE Found(words[i])

\* CITY_PATTERNS in their order ('weather in' can only match where 'in'
\* has), then the fallback.
extract_city_from_message(words) ==
    LET str == Join(words)
        Capture(kw) ==
            StripTrailing(SubSeq(str, Least(KeywordMatches(str, kw)) + Len(kw) + 1,
                                 Len(str)))
    IN  IF KeywordMatches(str, in) # {} THEN Found(Capture(in))
        ELSE IF KeywordMatches(str, at) # {} THEN Found(Capture(at))
        ELSE IF KeywordMatches(str, for) # {} THEN Found(Capture(for))
        ELSE IF SuffixMatches(str) # {}
        THEN Found(StripTrailing(SubSeq(str, 1, Greatest(SuffixMatches(str)) - 1)))
        ELSE Fallback(words)

ExtractCity ==
    /\ fn_in.fn = "extract_city_from_message"
    /\ fn_out = NoCallYet
    /\ fn_out' = extract_city_from_message(fn_in.message)
    /\ UNCHANGED fn_in

ExtractNext == ExtractCity /\ UNCHANGED exceptFn

ExtractInit ==
    /\ CacheInit /\ redis_kind = "redis" /\ BreakerInit /\ Resting
    /\ fn_in \in {[fn |-> "extract_city_from_message", message |-> msg] : msg \in Messages}
    /\ fn_out = NoCallYet

ExtractSpec == ExtractInit /\ [][ExtractNext]_vars

\* The messages <words> in <City>, with or without a trailing word.
NamesLondon(words) ==
    \E k \in 1..Len(words) - 1 :
        /\ words[k] = in
        /\ words[k + 1] = London
        /\ \A i \in 1..(k - 1) : words[i] \notin {in, London}
        /\ \/ Len(words) = k + 1
           \/ Len(words) = k + 2 /\ words[k + 2] \in TrailingWords

\* C23: extract_city_from_message returns None for 'Hello world', for
\* 'weather today' and for every message of lowercase words none of which
\* is 'in'; for a message '<words> in London', with or without a trailing
\* 'weather' or 'today', it returns 'London'.
C23_CityExtraction ==
    fn_out.fn = "extract_city_from_message" =>
        /\ fn_in.message = <<Hello, world>> => ~fn_out.found
        /\ fn_in.message = <<weather, today>> => ~fn_out.found
        /\ (\A i \in 1..Len(fn_in.message) : fn_in.message[i] \in {world, weather, today})
              => ~fn_out.found
        /\ NamesLondon(fn_in.message) => (fn_out.found /\ fn_out.city = London)

(***************************************************************************)
(* CacheService.set and get of concurrent requests on a Redis whose calls  *)
(* all succeed.                                                            *)
(***************************************************************************)
RaceNext ==
    \/ \E t \in Tasks, k \in Keys, v \in Payloads, s \in TTLs :
          SetStart(t, k, v, s) /\ UNCHANGED exceptCache
    \/ \E t \in Tasks :
          RedisSetexExec(t) /\ last'.src = "ok" /\ UNCHANGED exceptCache
    \/ \E t \in Tasks, k \in Keys : GetStart(t, k) /\ UNCHANGED exceptCache
    \/ \E t \in Tasks :
          RedisGetExec(t) /\ last'.src # "lookup_error" /\ UNCHANGED exceptCache
    \/ \E t \in Tasks : GetResume(t) /\ UNCHANGED exceptCache
    \/ Tick /\ UNCHANGED exceptCache

RaceSpec == ClientInit /\ [][RaceNext]_vars

\* C24: when no cache call is in flight, a key that the fast tier holds
\* unexpired and the shared tier holds has the same payload in both.
C24_LastWriterWins ==
    (\A t \in Tasks : pc[t] = "idle") =>
        \A k \in Keys :
            (MemoryHit(k) /\ InShared(k)) => memory_cache[k] = redis_store[k].val

\* C25: a call of get_historical_weather whose attempts fail is retried
\* until 3 attempts were made and ends in RetryError, a failure its breaker
\* counts (5 in a row open it); it ends otherwise only with data or with
\* the rejection of its open breaker.
C25_HistoricalResilience ==
    (wlast.kind = "call" /\ wlast.op = HistoricalOp /\ wlast.result # "ok") =>
        \/ /\ wlast.result = "RetryError"
           /\ wlast.attempts = stop_after_attempt
           /\ streak[HistoricalOp] >= 1
           /\ streak[HistoricalOp] >= failure_threshold => state[HistoricalOp] = "open"
        \/ /\ wlast.result = "CircuitBreakerError"
           /\ wlast.attempts = 0

(***************************************************************************)
(* GET /stream and POST /broadcast of api/sse_routes.py, on the SSEManager *)
(* the module creates, beside the alert loop, which pushes into the        *)
(* SSEManager its AlertService created.  The generator of a stream         *)
(* registers the user, then once a second sends what get_pending_events    *)
(* returns; when the client goes away it removes the connection.           *)
(***************************************************************************)
StreamPending(u) == IF u \in DOMAIN stream_pending THEN stream_pending[u] ELSE <<>>

\* await sse_manager.add_connection(user_id)
StreamOpen(u) ==
    /\ u \notin stream_connections
    /\ stream_connections' = stream_connections \cup {u}
    /\ stream_pending' =
          IF u \in DOMAIN stream_pending THEN stream_pending
          ELSE Put(stream_pending, u, <<>>)
    /\ UNCHANGED <<yielded, next_seq>>

\* events = await sse_manager.get_pending_events(user_id), each one sent.
StreamPoll(u) ==
    /\ u \in stream_connections
    /\ StreamPending(u) # <<>>
    /\ yielded' = [yielded EXCEPT ![u] = @ \o StreamPending(u)]
    /\ stream_pending' = [stream_pending EXCEPT ![u] = <<>>]
    /\ UNCHANGED <<stream_connections, next_seq>>

\* asyncio.CancelledError: await sse_manager.remove_connection(user_id)
StreamClosed(u) ==
    /\ u \in stream_connections
    /\ stream_connections' = stream_connections \ {u}
    /\ stream_pending' = Del(stream_pending, u)
    /\ UNCHANGED <<yielded, next_seq>>

\* POST /broadcast: await sse_manager.send_event(user['uid'], event_type, data)
broadcast_event(u, event_type) ==
    /\ next_seq <= MaxBroadcasts
    /\ stream_pending' =
          Put(stream_pending, u,
              Append(StreamPending(u),
                     [type |-> event_type, data |-> AnEventData, seq |-> next_seq]))
    /\ next_seq' = next_seq + 1
    /\ UNCHANGED <<stream_connections, yielded>>

exceptStream == <<cacheVars, breakerVars, alertVars, condVars, routeVars, fnVars, connections, pending_events, delivered, otpVars, crudVars>>

DeliveryNext ==
    \/ StartMonitoring(1, "ok") /\ UNCHANGED <<exceptAlert, noPush>>
    \/ \E w \in FetchOutcomes, dbo \in DbOutcomes :
          FetchDone(1, w, dbo) /\ UNCHANGED exceptAlert
    \/ /\ wake[1] <= MaxAlertTime
       /\ Wake(1, "ok")
       /\ UNCHANGED <<exceptAlert, noPush>>
    \/ \E u \in Users : StreamOpen(u) /\ UNCHANGED exceptStream
    \/ \E u \in Users : StreamPoll(u) /\ UNCHANGED exceptStream
    \/ \E u \in Users : StreamClosed(u) /\ UNCHANGED exceptStream
    \/ \E u \in Users, et \in EventTypes :
          broadcast_event(u, et) /\ UNCHANGED exceptStream

DeliverySpec == NaiveInit /\ [][DeliveryNext]_vars

\* C26: every alert_triggered event the alert loop has pushed for a user
\* whose stream is connected is pending in the queue that stream drains or
\* has been sent on it.
C26_PushedEventReachesStream ==
    \A u \in stream_connections :
        \A i \in 1..Len(Pending(u)) :
            Pending(u)[i].type = "alert_triggered" =>
                Pending(u)[i].seq \in SeqsOf(StreamPending(u)) \cup SeqsOf(yielded[u])

(***************************************************************************)
(* One monitoring loop on a document store with naive timestamps, every    *)
(* answer of the upstream and every outcome of the two writes.             *)
(***************************************************************************)
BookkeepingNext ==
    \/ \E load \in Loads :
          StartMonitoring(1, load) /\ UNCHANGED <<exceptAlert, noPush>>
    \/ StopMonitoring /\ UNCHANGED <<exceptAlert, noPush>>
    \/ \E w \in FetchOutcomes, dbo \in DbOutcomes :
          FetchDone(1, w, dbo) /\ UNCHANGED exceptAlert
    \/ \E load \in Loads :
          /\ wake[1] <= MaxAlertTime \/ ~is_running
          /\ Wake(1, load)
          /\ UNCHANGED <<exceptAlert, noPush>>

BookkeepingSpec == NaiveInit /\ [][BookkeepingNext]_vars

\* s is t, or t with entries added at its end.
IsPrefix(s, t) == Len(s) <= Len(t) /\ SubSeq(t, 1, Len(s)) = s

\* C27: no step of the alert loop changes the name, type, threshold,
\* comparison, location, owner or active flag of an alert; of an alert it
\* changes at most lastTriggered, set to the time of the step, together with
\* triggerCount, raised by one; and the history keeps its records and only
\* gets new ones at its end.
C27_OnlyBookkeeping ==
    [][/\ alert_docs' = alert_docs
       /\ \A a \in AlertIds :
             \/ /\ triggerCount'[a] = triggerCount[a]
                /\ lastTriggered'[a] = lastTriggered[a]
             \/ /\ triggerCount'[a] = triggerCount[a] + 1
                /\ lastTriggered'[a] = <<utc>>
       /\ IsPrefix(alert_history, alert_history')]_vars

\* C27, witness: the loop has just triggered an alert: its document has a
\* trigger count of 1 and the time of the step as lastTriggered, and the
\* history holds the record.
C27_Witness ==
    /\ alast.kind = "eval"
    /\ alast.outcome = "triggered"
    /\ triggerCount[alast.alert] = 1
    /\ lastTriggered[alast.alert] = <<utc>>
    /\ alert_history # <<>>
    /\ alert_docs[alast.alert].active

(***************************************************************************)
(* services/otp_service.py: store_otp and verify_otp.  A call suspends in  *)
(* every Redis command; a step is the execution of the command a call      *)
(* awaits together with the code up to its next command.  Any command may  *)
(* raise (ok = FALSE): store_otp re-raises, verify_otp returns False.      *)
(***************************************************************************)
max_attempts == 3

OtpReturned(t, kind, res) ==
    /\ vpc' = [vpc EXCEPT ![t] = "idle"]
    /\ vemail' = [vemail EXCEPT ![t] = AnEmail]
    /\ votp' = [votp EXCEPT ![t] = ACode]
    /\ stored_otp' = [stored_otp EXCEPT ![t] = ACode]
    /\ olast' = [kind |-> kind, email |-> vemail[t], result |-> res]

OtpAwaits(t, cmd) ==
    /\ vpc' = [vpc EXCEPT ![t] = cmd]
    /\ olast' = NoOtpCall
    /\ UNCHANGED <<vemail, votp, stored_otp>>

\* store_otp(e, c): redis.setex(f"otp:{email}", 5 minutes, otp)
StoreOtp(t, e, c, ok) ==
    /\ vpc[t] = "idle"
    /\ IF ok
       THEN /\ otp_key' = [otp_key EXCEPT ![e] = <<c>>]
            /\ accepted' = [accepted EXCEPT ![e] = 0]
            /\ compared' = [compared EXCEPT ![e] = 0]
            /\ vpc' = [vpc EXCEPT ![t] = "setex_attempts"]
            /\ vemail' = [vemail EXCEPT ![t] = e]
            /\ olast' = NoOtpCall
       ELSE /\ olast' = [kind |-> "store", email |-> e, result |-> FALSE]
            /\ UNCHANGED <<otp_key, accepted, compared, vpc, vemail>>
    /\ UNCHANGED <<otp_attempts, votp, stored_otp>>

\* store_otp: redis.setex(f"otp_attempts:{email}", 5 minutes, "0")
StoreAttempts(t, ok) ==
    /\ vpc[t] = "setex_attempts"
    /\ otp_attempts' = IF ok THEN [otp_attempts EXCEPT ![vemail[t]] = <<0>>]
                            ELSE otp_attempts
    /\ OtpReturned(t, "store", ok)
    /\ UNCHANGED <<otp_key, accepted, compared>>

\* verify_otp(e, g): stored_otp = await redis.get(key), `if not stored_otp`
VerifyOtp(t, e, g, ok) ==
    /\ vpc[t] = "idle"
    /\ compared[e] < MaxGuesses
    /\ IF ok /\ otp_key[e] # <<>>
       THEN /\ vpc' = [vpc EXCEPT ![t] = "get_attempts"]
            /\ vemail' = [vemail EXCEPT ![t] = e]
            /\ votp' = [votp EXCEPT ![t] = g]
            /\ stored_otp' = [stored_otp EXCEPT ![t] = otp_key[e][1]]
            /\ olast' = NoOtpCall
       ELSE /\ olast' = [kind |-> "verify", email |-> e, result |-> FALSE]
            /\ UNCHANGED <<vpc, vemail, votp, stored_otp>>
    /\ UNCHANGED <<otp_key, otp_attempts, accepted, compared>>

\* attempts >= 3
TooMany(attempts) == attempts >= max_attempts

\* verify_otp: attempts = int(await redis.get(attempts_key) or 0), the
\* test of the attempts and the comparison of the code.
VerifyAttempts(t, ok) ==
    /\ vpc[t] = "get_attempts"
    /\ LET e == vemail[t]
           attempts == IF otp_attempts[e] = <<>> THEN 0 ELSE otp_attempts[e][1]
       IN  IF ~ok
           THEN /\ OtpReturned(t, "verify", FALSE)
                /\ UNCHANGED compared
           ELSE IF TooMany(attempts)
           THEN /\ OtpAwaits(t, "locked_delete_key")
                /\ UNCHANGED compared
           ELSE IF stored_otp[t] # votp[t]
           THEN /\ OtpAwaits(t, "incr")
                /\ compared' = [compared EXCEPT ![e] = @ + 1]
           ELSE /\ OtpAwaits(t, "valid_delete_key")
                /\ UNCHANGED compared
    /\ UNCHANGED <<otp_key, otp_attempts, accepted>>

\* verify_otp: await redis.incr(attempts_key); return False
VerifyIncr(t, ok) ==
    /\ vpc[t] = "incr"
    /\ LET e == vemail[t]
       IN  otp_attempts' =
              IF ~ok THEN otp_attempts
              ELSE IF otp_attempts[e] = <<>> THEN [otp_attempts EXCEPT ![e] = <<1>>]
              ELSE [otp_attempts EXCEPT ![e] = <<@[1] + 1>>]
    /\ OtpReturned(t, "verify", FALSE)
    /\ UNCHANGED <<otp_key, accepted, compared>>

\* verify_otp: await redis.delete(key), of the lockout and of a valid code
VerifyDeleteKey(t, ok) ==
    /\ vpc[t] \in {"locked_delete_key", "valid_delete_key"}
    /\ IF ok
       THEN /\ otp_key' = [otp_key EXCEPT ![vemail[t]] = <<>>]
            /\ OtpAwaits(t, IF vpc[t] = "locked_delete_key"
                            THEN "locked_delete_attempts"
                            ELSE "valid_delete_attempts")
       ELSE /\ OtpReturned(t, "verify", FALSE)
            /\ UNCHANGED otp_key
    /\ UNCHANGED <<otp_attempts, accepted, compared>>

\* verify_otp: await redis.delete(attempts_key); return False after a
\* lockout, True after a valid code.
VerifyDeleteAttempts(t, ok) ==
    /\ vpc[t] \in {"locked_delete_attempts", "valid_delete_attempts"}
    /\ LET e == vemail[t]
           res == ok /\ vpc[t] = "valid_delete_attempts"
       IN  /\ otp_attempts' = IF ok THEN [otp_attempts EXCEPT ![e] = <<>>]
                                    ELSE otp_attempts
           /\ accepted' = IF res THEN [accepted EXCEPT ![e] = @ + 1] ELSE accepted
           /\ OtpReturned(t, "verify", res)
    /\ UNCHANGED <<otp_key, compared>>

\* The TTL of otp:{email} runs out.
OtpExpires(e) ==
    /\ otp_key[e] # <<>>
    /\ otp_key' = [otp_key EXCEPT ![e] = <<>>]
    /\ olast' = NoOtpCall
    /\ UNCHANGED <<otp_attempts, vpc, vemail, votp, stored_otp, accepted, compared>>

\* The TTL of otp_attempts:{email}, set after that of otp:{email}, runs out.
AttemptsExpire(e) ==
    /\ otp_key[e] = <<>>
    /\ otp_attempts[e] # <<>>
    /\ otp_attempts' = [otp_attempts EXCEPT ![e] = <<>>]
    /\ olast' = NoOtpCall
    /\ UNCHANGED <<otp_key, vpc, vemail, votp, stored_otp, accepted, compared>>

exceptOtp == <<cacheVars, breakerVars, alertVars, sseVars, condVars, routeVars, fnVars, streamVars, crudVars>>

OtpNext ==
    \/ \E t \in Tasks, e \in Emails, c \in Codes, ok \in BOOLEAN :
          StoreOtp(t, e, c, ok) /\ UNCHANGED exceptOtp
    \/ \E t \in Tasks, ok \in BOOLEAN : StoreAttempts(t, ok) /\ UNCHANGED exceptOtp
    \/ \E t \in Tasks, e \in Emails, g \in Codes, ok \in BOOLEAN :
          VerifyOtp(t, e, g, ok) /\ UNCHANGED exceptOtp
    \/ \E t \in Tasks, ok \in BOOLEAN : VerifyAttempts(t, ok) /\ UNCHANGED exceptOtp
    \/ \E t \in Tasks, ok \in BOOLEAN : VerifyIncr(t, ok) /\ UNCHANGED exceptOtp
    \/ \E t \in Tasks, ok \in BOOLEAN : VerifyDeleteKey(t, ok) /\ UNCHANGED exceptOtp
    \/ \E t \in Tasks, ok \in BOOLEAN :
          VerifyDeleteAttempts(t, ok) /\ UNCHANGED exceptOtp
    \/ \E e \in Emails : OtpExpires(e) /\ UNCHANGED exceptOtp
    \/ \E e \in Emails : AttemptsExpire(e) /\ UNCHANGED exceptOtp

OtpSpec == ClientInit /\ [][OtpNext]_vars

\* C28: since an OTP was last stored for an email, at most one verify_otp
\* call for that email has returned True.
C28_SingleUse == \A e \in Emails : accepted[e] <= 1

\* C29: since an OTP was last stored for an email, at most 3 wrong codes
\* have been compared against it, and a verify_otp call that returns True
\* does so with fewer than 3 compared.
C29_ThreeGuesses ==
    /\ \A e \in Emails : compared[e] <= max_attempts
    /\ (olast.kind = "verify" /\ olast.result) => compared[olast.email] < max_attempts

(***************************************************************************)
(* POST, PUT and DELETE of api/alerts_routes.py on the alerts of one       *)
(* owner.  The handlers tell the documents of an owner apart only by their *)
(* active flag, so the collection is held as the number of documents with  *)
(* each flag.  create_alert suspends in geocode_city, between its count of *)
(* the active alerts and its write; update_alert and delete_alert do not   *)
(* suspend.                                                                *)
(***************************************************************************)
Owner == "u1"
max_active == 20

\* What a request names: no document, or a document with this active flag.
Targets == {<<>>, <<TRUE>>, <<FALSE>>}

\* AlertUpdate.active: None, True or False
ActiveUpdates == {<<>>, <<TRUE>>, <<FALSE>>}

Reply(o, st) == [op |-> o, status |-> st]

Documents == user_alerts[TRUE] + user_alerts[FALSE]

\* create_alert up to `await geocode_city`: the inputs are valid or not,
\* then the active alerts of the user are counted.
CreateAlert(t, valid) ==
    /\ cpc[t] = "idle"
    /\ IF ~valid
       THEN /\ clast' = Reply("create", 400)
            /\ UNCHANGED cpc
       ELSE IF user_alerts[TRUE] >= max_active
       THEN /\ clast' = Reply("create", 403)
            /\ UNCHANGED cpc
       ELSE /\ cpc' = [cpc EXCEPT ![t] = "geocode"]
            /\ clast' = NoReply
    /\ UNCHANGED user_alerts

\* create_alert from the answer of geocode_city: alert_ref.set(alert_data)
\* with 'active': True, or the 500 of a failed geocoding.
CreateGeocoded(t, ok) ==
    /\ cpc[t] = "geocode"
    /\ Documents < MaxAlertDocs
    /\ cpc' = [cpc EXCEPT ![t] = "idle"]
    /\ IF ok
       THEN /\ user_alerts' = [user_alerts EXCEPT ![TRUE] = @ + 1]
            /\ clast' = Reply("create", 200)
       ELSE /\ clast' = Reply("create", 500)
            /\ UNCHANGED user_alerts

\* The document a request names exists.
Exists(target) == target # <<>> /\ user_alerts[target[1]] > 0

\* update_alert by user u on the document target, with AlertUpdate.active
\* = active.
update_alert(u, target, active) ==
    /\ target = <<>> \/ Exists(target)
    /\ IF target = <<>>
       THEN /\ clast' = Reply("update", 404)
            /\ UNCHANGED user_alerts
       ELSE IF u # Owner
       THEN /\ clast' = Reply("update", 403)
            /\ UNCHANGED user_alerts
       ELSE /\ clast' = Reply("update", 200)
            /\ user_alerts' =
                  IF active = <<>> \/ active = target THEN user_alerts
                  ELSE [f \in BOOLEAN |->
                           IF f = active[1] THEN user_alerts[f] + 1
                           ELSE user_alerts[f] - 1]
    /\ UNCHANGED cpc

\* delete_alert by user u on the document target.
delete_alert(u, target) ==
    /\ target = <<>> \/ Exists(target)
    /\ IF target = <<>>
       THEN /\ clast' = Reply("delete", 404)
            /\ UNCHANGED user_alerts
       ELSE IF u # Owner
       THEN /\ clast' = Reply("delete", 403)
            /\ UNCHANGED user_alerts
       ELSE /\ clast' = Reply("delete", 200)
            /\ user_alerts' = [user_alerts EXCEPT ![target[1]] = @ - 1]
    /\ UNCHANGED cpc

exceptCrud == <<cacheVars, breakerVars, alertVars, sseVars, condVars, routeVars, fnVars, streamVars, otpVars>>

CrudNext ==
    \/ \E t \in Tasks, valid \in BOOLEAN : CreateAlert(t, valid) /\ UNCHANGED exceptCrud
    \/ \E t \in Tasks, ok \in BOOLEAN : CreateGeocoded(t, ok) /\ UNCHANGED exceptCrud
    \/ \E u \in Users, target \in Targets, active \in ActiveUpdates :
          update_alert(u, target, active) /\ UNCHANGED exceptCrud
    \/ \E u \in Users, target \in Targets :
          delete_alert(u, target) /\ UNCHANGED exceptCrud

CrudSpec == ClientInit /\ [][CrudNext]_vars

\* C30: the owner has at most 20 active alerts.
C30_AtMostTwentyActive == user_alerts[TRUE] <= max_active

====
